---- MODULE Spec2Model ----
(***************************************************************************)
(* Model of the Bass Tab Site backend: the slug sanitizer                  *)
(* (app/core/security.py), the validated record model (app/schemas.py),    *)
(* the in-memory lookup store (app/models.py) and the two endpoints of     *)
(* app/api/pairs.py.                                                       *)
(*                                                                         *)
(* Strings that the code inspects character by character (slugs) are       *)
(* sequences of one-character strings.  Times are integers counting tenths *)
(* of a second (4.1 s is 41), so every comparison the code makes on the    *)
(* values used here is exact.                                              *)
(***************************************************************************)
EXTENDS Integers, Sequences, FiniteSets, TLC

VARIABLES
    data,       \* InMemoryDatabase._data: insertion-ordered dict, a sequence of [slug, rec]
    inserted,   \* history: every add_pair that returned True, in order
    last,       \* the last completed call and what it returned
    debug,      \* settings.debug
    pc,         \* per thread: position inside add_pair
    call,       \* per thread: the arguments of its add_pair call
    ret,        \* per thread: the value its add_pair call returned
    heap,       \* the PagePayload objects changed since they were built, by reference
    vin,        \* input handed to the record model
    vout        \* what the record model answered

vars == <<data, inserted, last, debug, pc, call, ret, heap, vin, vout>>

-----------------------------------------------------------------------------
(* Bounds of the model *)

\* longest slug enumerated exhaustively over SlugChars
MaxSlugLen == 2
\* longest bar-marker list handed to Tab
MaxBars == 3
\* number of threads calling add_pair concurrently
NumThreads == 2

-----------------------------------------------------------------------------
(* Characters *)

LowerChars ==
    {"a", "b", "c", "d", "e", "f", "g", "h", "i", "j", "k", "l", "m",
     "n", "o", "p", "q", "r", "s", "t", "u", "v", "w", "x", "y", "z"}

DigitChars == {"0", "1", "2", "3", "4", "5", "6", "7", "8", "9"}

\* what str.strip() removes
WhitespaceChars == {" ", "\t", "\n", "\r"}

UpperChars ==
    {"A", "B", "C", "D", "E", "F", "G", "H", "I", "J", "K", "L", "M",
     "N", "O", "P", "Q", "R", "S", "T", "U", "V", "W", "X", "Y", "Z"}

\* a character outside ASCII is written by its code point: "U+00E9" is the
\* letter e with acute accent, "U+2014" the em dash
\* the characters str.isalnum() accepts
AlnumChars == LowerChars \cup UpperChars \cup DigitChars \cup {"U+00E9"}

\* the character class [a-z0-9-]
SlugClass == LowerChars \cup DigitChars \cup {"-"}

\* the string of n characters c
Repeat(c, n) == [i \in 1..n |-> c]

\* s.lstrip(): s from its first non-whitespace character on
LStrip(s) ==
    IF \A i \in 1..Len(s) : s[i] \in WhitespaceChars
    THEN <<>>
    ELSE SubSeq(s, CHOOSE i \in 1..Len(s) :
                       /\ s[i] \notin WhitespaceChars
                       /\ \A j \in 1..(i - 1) : s[j] \in WhitespaceChars,
                Len(s))

\* s.rstrip(): s up to its last non-whitespace character
RStrip(s) ==
    IF \A i \in 1..Len(s) : s[i] \in WhitespaceChars
    THEN <<>>
    ELSE SubSeq(s, 1, CHOOSE i \in 1..Len(s) :
                          /\ s[i] \notin WhitespaceChars
                          /\ \A j \in (i + 1)..Len(s) : s[j] \in WhitespaceChars)

\* str.strip()
Strip(s) == RStrip(LStrip(s))

\* `sub in s` for strings
Contains(s, sub) ==
    \E i \in 1..(Len(s) - Len(sub) + 1) : SubSeq(s, i, i + Len(sub) - 1) = sub

AllInClass(s, class) == \A i \in 1..Len(s) : s[i] \in class

\* re.match(r'^[a-z0-9-]+$', s): Python's $ also matches before a final newline
ReMatchSlug(s) ==
    \/ s # <<>> /\ AllInClass(s, SlugClass)
    \/ /\ Len(s) >= 2
       /\ s[Len(s)] = "\n"
       /\ AllInClass(SubSeq(s, 1, Len(s) - 1), SlugClass)

-----------------------------------------------------------------------------
(* SecurityUtils.sanitize_slug *)

SlugMaxLength == 100

Raise(type, msg) == [ok |-> FALSE, type |-> type, msg |-> msg]
Return(v) == [ok |-> TRUE, value |-> v]

\* a plausible slip: the length limit is dropped
sanitize_slug_nolimit(slug) ==
    LET s == Strip(slug) IN
    IF s = <<>> THEN Raise("ValueError", "Slug cannot be empty")
    ELSE IF ~ReMatchSlug(s)
    THEN Raise("ValueError", "Slug can only contain lowercase letters, numbers, and hyphens")
    ELSE Return(s)

\* SecurityUtils.sanitize_slug
sanitize_slug(slug) ==
    LET s == Strip(slug) IN
    IF s = <<>> THEN Raise("ValueError", "Slug cannot be empty")
    ELSE IF ~ReMatchSlug(s)
    THEN Raise("ValueError", "Slug can only contain lowercase letters, numbers, and hyphens")
    ELSE IF Contains(s, <<".", ".">>) \/ Contains(s, <<"/">>) \/ Contains(s, <<"\\">>)
    THEN Raise("ValueError", "Slug contains invalid path characters")
    ELSE IF Len(s) > SlugMaxLength
    THEN Raise("ValueError", "Slug too long (max 100 characters)")
    ELSE Return(s)

\* the 3600 seconds of validate_timestamp, in tenths of a second
TimestampCeiling == 36000

\* SecurityUtils.validate_timestamp
validate_timestamp(timestamp) == 0 <= timestamp /\ timestamp <= TimestampCeiling

-----------------------------------------------------------------------------
(* The validated record model (app/schemas.py).  A validation answers      *)
(* [ok |-> TRUE, value |-> v] or [ok |-> FALSE, type |-> .., msg |-> ..].  *)

\* an absent Optional[str] (Python's None where a string may stand)
NoneStr == <<"None">>

\* a validator that runs on the value another one accepted
Then(r, F(_)) == IF r.ok THEN F(r.value) ELSE r

\* the entry a failed field leaves in the errors of a ValidationError
FieldErrors(loc, r) ==
    IF r.ok THEN <<>> ELSE <<[loc |-> loc, type |-> r.type, msg |-> r.msg]>>

\* some field failed with this message
Reports(result, loc, msg) ==
    \E i \in 1..Len(result.msg) : result.msg[i].loc = loc /\ result.msg[i].msg = msg

\* a record completed with the defaults of the fields it leaves out
WithDefaults(raw, defaults) ==
    [f \in DOMAIN raw \cup DOMAIN defaults |->
        IF f \in DOMAIN raw THEN raw[f] ELSE defaults[f]]

\* a plausible slip: the length limits are applied before the whitespace is
\* stripped
StrField_checkfirst(v, strip_whitespace, c) ==
    IF "min_length" \in DOMAIN c /\ Len(v) < c.min_length
    THEN Raise("string_too_short", "String should have at least min_length characters")
    ELSE IF "max_length" \in DOMAIN c /\ Len(v) > c.max_length
    THEN Raise("string_too_long", "String should have at most max_length characters")
    ELSE Return(IF strip_whitespace THEN Strip(v) ELSE v)

\* a str field with Field(min_length=.., max_length=..): under
\* str_strip_whitespace the value is stripped first, the limits are applied
\* to what is left
StrField(v, strip_whitespace, c) ==
    LET s == IF strip_whitespace THEN Strip(v) ELSE v IN
    IF "min_length" \in DOMAIN c /\ Len(s) < c.min_length
    THEN Raise("string_too_short", "String should have at least min_length characters")
    ELSE IF "max_length" \in DOMAIN c /\ Len(s) > c.max_length
    THEN Raise("string_too_long", "String should have at most max_length characters")
    ELSE Return(s)

\* a plausible slip: the upper limit is not applied
IntField_nomax(v, ge, le) ==
    IF v < ge
    THEN Raise("greater_than_equal", "Input should be greater than or equal to ge")
    ELSE Return(v)

\* an int field with Field(ge=.., le=..); the values handed over are integers
IntField(v, ge, le) ==
    IF v < ge
    THEN Raise("greater_than_equal", "Input should be greater than or equal to ge")
    ELSE IF v > le
    THEN Raise("less_than_equal", "Input should be less than or equal to le")
    ELSE Return(v)

\* a field of type Literal[...]
LiteralField(v, allowed) ==
    IF v \in allowed THEN Return(v)
    ELSE Raise("literal_error", "Input should be one of the literals")

\* Track.validate_youtube_id (Original.validate_youtube_id repeats it)
validate_youtube_id(v) ==
    IF v = <<>> \/ Len(v) # 11
    THEN Raise("ValueError", "YouTube ID must be exactly 11 characters")
    ELSE IF ~AllInClass(v, AlnumChars \cup {"_", "-"})
    THEN Raise("ValueError", "YouTube ID contains invalid characters")
    ELSE Return(v)

\* a plausible slip: the isalnum() check is dropped
validate_spotify_id_anychar(v) ==
    IF v = NoneStr THEN Return(v)
    ELSE IF Len(v) # 22
    THEN Raise("ValueError", "Spotify ID must be exactly 22 characters")
    ELSE Return(v)

\* Track.validate_spotify_id (Original.validate_spotify_id repeats it)
validate_spotify_id(v) ==
    IF v = NoneStr THEN Return(v)
    ELSE IF Len(v) # 22
    THEN Raise("ValueError", "Spotify ID must be exactly 22 characters")
    ELSE IF ~(v # <<>> /\ AllInClass(v, AlnumChars))
    THEN Raise("ValueError", "Spotify ID must be alphanumeric")
    ELSE Return(v)

\* the field youtube_id of Track and Original: Field(min_length=11,
\* max_length=11), then the field validator on the value that passed it
YoutubeIdField(v) ==
    Then(StrField(v, TRUE, [min_length |-> 11, max_length |-> 11]), validate_youtube_id)

\* the field spotify_id of Track and Original: Optional[str] with
\* Field(None, min_length=22, max_length=22), then the field validator
SpotifyIdField(v) ==
    Then(IF v = NoneStr THEN Return(v)
         ELSE StrField(v, TRUE, [min_length |-> 22, max_length |-> 22]),
         validate_spotify_id)

TrackDefaults == [spotify_id |-> NoneStr]

\* Track: every field is validated, the errors of all of them are reported
Track(fields) ==
    LET raw        == WithDefaults(fields, TrackDefaults)
        title      == StrField(raw.title, TRUE, [min_length |-> 1, max_length |-> 200])
        artist     == StrField(raw.artist, TRUE, [min_length |-> 1, max_length |-> 100])
        year       == IntField(raw.year, 1900, 2030)
        youtube_id == YoutubeIdField(raw.youtube_id)
        spotify_id == SpotifyIdField(raw.spotify_id)
        errors     == FieldErrors("title", title) \o FieldErrors("artist", artist)
                      \o FieldErrors("year", year)
                      \o FieldErrors("youtube_id", youtube_id)
                      \o FieldErrors("spotify_id", spotify_id)
    IN  IF errors # <<>> THEN Raise("ValidationError", errors)
        ELSE Return([title |-> title.value, artist |-> artist.value,
                     year |-> year.value, youtube_id |-> youtube_id.value,
                     spotify_id |-> spotify_id.value])

\* Original: the fields and validators of Track, declared again
Original(fields) ==
    LET raw        == WithDefaults(fields, TrackDefaults)
        title      == StrField(raw.title, TRUE, [min_length |-> 1, max_length |-> 200])
        artist     == StrField(raw.artist, TRUE, [min_length |-> 1, max_length |-> 100])
        year       == IntField(raw.year, 1900, 2030)
        youtube_id == YoutubeIdField(raw.youtube_id)
        spotify_id == SpotifyIdField(raw.spotify_id)
        errors     == FieldErrors("title", title) \o FieldErrors("artist", artist)
                      \o FieldErrors("year", year)
                      \o FieldErrors("youtube_id", youtube_id)
                      \o FieldErrors("spotify_id", spotify_id)
    IN  IF errors # <<>> THEN Raise("ValidationError", errors)
        ELSE Return([title |-> title.value, artist |-> artist.value,
                     year |-> year.value, youtube_id |-> youtube_id.value,
                     spotify_id |-> spotify_id.value])

SampleTypes == {"direct", "interpolation", "replay"}

SampleMapDefaults ==
    [is_bass_sample |-> TRUE, sample_type |-> "direct", notes |-> NoneStr]

\* the field notes of SampleMap: Optional[str] with Field(None,
\* max_length=500); SampleMap does not strip whitespace
NotesField(v) ==
    IF v = NoneStr THEN Return(v) ELSE StrField(v, FALSE, [max_length |-> 500])

\* a plausible slip: original_start_sec loses its Field(ge=0)
SampleMap_origfree(fields) ==
    LET raw == WithDefaults(fields, SampleMapDefaults) IN
    IF ~LiteralField(raw.sample_type, SampleTypes).ok
    THEN Raise("ValidationError", "sample_type: literal_error")
    ELSE IF raw.track_start_sec < 0
    THEN Raise("ValidationError", "track_start_sec: greater_than_equal")
    ELSE IF ~NotesField(raw.notes).ok
    THEN Raise("ValidationError", "notes: string_too_long")
    ELSE Return(raw)

\* a plausible slip: sample_type is declared a plain str
SampleMap_anytype(fields) ==
    LET raw == WithDefaults(fields, SampleMapDefaults) IN
    IF raw.track_start_sec < 0
    THEN Raise("ValidationError", "track_start_sec: greater_than_equal")
    ELSE IF raw.original_start_sec < 0
    THEN Raise("ValidationError", "original_start_sec: greater_than_equal")
    ELSE IF ~NotesField(raw.notes).ok
    THEN Raise("ValidationError", "notes: string_too_long")
    ELSE Return(raw)

\* a plausible slip: the timestamps are also put to validate_timestamp
SampleMap_ceiling(fields) ==
    LET raw == WithDefaults(fields, SampleMapDefaults) IN
    IF ~LiteralField(raw.sample_type, SampleTypes).ok
    THEN Raise("ValidationError", "sample_type: literal_error")
    ELSE IF ~validate_timestamp(raw.track_start_sec)
    THEN Raise("ValidationError", "track_start_sec: out of range")
    ELSE IF ~validate_timestamp(raw.original_start_sec)
    THEN Raise("ValidationError", "original_start_sec: out of range")
    ELSE IF ~NotesField(raw.notes).ok
    THEN Raise("ValidationError", "notes: string_too_long")
    ELSE Return(raw)

\* SampleMap: sample_type is a Literal, track_start_sec and
\* original_start_sec carry Field(ge=0), notes Field(max_length=500); the
\* error answered is that of the first field that fails
SampleMap(fields) ==
    LET raw == WithDefaults(fields, SampleMapDefaults) IN
    IF ~LiteralField(raw.sample_type, SampleTypes).ok
    THEN Raise("ValidationError", "sample_type: literal_error")
    ELSE IF raw.track_start_sec < 0
    THEN Raise("ValidationError", "track_start_sec: greater_than_equal")
    ELSE IF raw.original_start_sec < 0
    THEN Raise("ValidationError", "original_start_sec: greater_than_equal")
    ELSE IF ~NotesField(raw.notes).ok
    THEN Raise("ValidationError", "notes: string_too_long")
    ELSE Return(raw)

\* BarMarker: bar carries Field(ge=1) and validate_bar_number, start_sec Field(ge=0)
BarMarker(raw) ==
    IF raw.bar < 1
    THEN Raise("ValidationError", "bar: greater_than_equal")
    ELSE IF raw.start_sec < 0
    THEN Raise("ValidationError", "start_sec: greater_than_equal")
    ELSE Return(raw)

\* the place sorted() gives x in an already sorted list: after every element
\* whose key is not greater (the sort is stable)
RECURSIVE InsertByBar(_, _)
InsertByBar(x, s) ==
    IF s = <<>> THEN <<x>>
    ELSE IF Head(s).bar <= x.bar THEN <<Head(s)>> \o InsertByBar(x, Tail(s))
    ELSE <<x>> \o s

\* sorted(v, key=lambda x: x.bar)
RECURSIVE SortedByBar(_)
SortedByBar(v) ==
    IF v = <<>> THEN <<>>
    ELSE InsertByBar(v[Len(v)], SortedByBar(SubSeq(v, 1, Len(v) - 1)))

\* len(bar_numbers) != len(set(bar_numbers))
HasDuplicateBars(v) == Cardinality({v[i].bar : i \in 1..Len(v)}) # Len(v)

\* a plausible slip: the input list is returned instead of the sorted one
validate_bars_order_unsorted(v) ==
    LET sorted_bars == SortedByBar(v) IN
    IF Len(v) < 1
    THEN Raise("ValueError", "At least one bar marker is required")
    ELSE IF HasDuplicateBars(sorted_bars)
    THEN Raise("ValueError", "Duplicate bar numbers are not allowed")
    ELSE IF \E i \in 2..Len(sorted_bars) :
                sorted_bars[i].start_sec <= sorted_bars[i - 1].start_sec
    THEN Raise("ValueError", "Bar timestamps must be in ascending order")
    ELSE Return(v)

\* a plausible slip: the ordering check is made before the duplicate check
validate_bars_order_swapped(v) ==
    LET sorted_bars == SortedByBar(v) IN
    IF Len(v) < 1
    THEN Raise("ValueError", "At least one bar marker is required")
    ELSE IF \E i \in 2..Len(sorted_bars) :
                sorted_bars[i].start_sec <= sorted_bars[i - 1].start_sec
    THEN Raise("ValueError", "Bar timestamps must be in ascending order")
    ELSE IF HasDuplicateBars(sorted_bars)
    THEN Raise("ValueError", "Duplicate bar numbers are not allowed")
    ELSE Return(sorted_bars)

\* Tab.validate_bars_order
validate_bars_order(v) ==
    LET sorted_bars == SortedByBar(v) IN
    IF Len(v) < 1
    THEN Raise("ValueError", "At least one bar marker is required")
    ELSE IF HasDuplicateBars(sorted_bars)
    THEN Raise("ValueError", "Duplicate bar numbers are not allowed")
    ELSE IF \E i \in 2..Len(sorted_bars) :
                sorted_bars[i].start_sec <= sorted_bars[i - 1].start_sec
    THEN Raise("ValueError", "Bar timestamps must be in ascending order")
    ELSE Return(sorted_bars)

\* the field bars of Tab: a list of BarMarker with Field(min_length=1), then
\* validate_bars_order
BarsField(v) ==
    IF \E i \in 1..Len(v) : ~BarMarker(v[i]).ok
    THEN Raise("ValidationError", "bars: invalid BarMarker")
    ELSE IF Len(v) < 1
    THEN Raise("ValidationError", "bars: too_short")
    ELSE validate_bars_order(v)

\* v.split('\n')
RECURSIVE Split(_, _)
Split(v, sep) ==
    IF \E i \in 1..Len(v) : v[i] = sep
    THEN LET i == CHOOSE i \in 1..Len(v) :
                      v[i] = sep /\ \A j \in 1..(i - 1) : v[j] # sep
         IN  <<SubSeq(v, 1, i - 1)>> \o Split(SubSeq(v, i + 1, Len(v)), sep)
    ELSE <<v>>

string_indicators ==
    {<<"G", "|">>, <<"D", "|">>, <<"A", "|">>, <<"E", "|">>, <<"B", "|">>}

\* Tab.validate_tab_format
validate_tab_format(v) ==
    IF Strip(v) = <<>> THEN Raise("ValueError", "Tab text cannot be empty")
    ELSE LET lines == Split(v, "\n")
             has_strings == \E i \in 1..Len(lines) :
                                \E indicator \in string_indicators :
                                    Contains(lines[i], indicator)
         IN  IF Len(lines) = 0
             THEN Raise("ValueError", "Tab must contain at least one line")
             ELSE IF ~has_strings
             THEN Raise("ValueError",
                        "Tab text must contain valid string indicators (G|, D|, A|, E|, B|)")
             ELSE Return(v)

Tunings == {"EADG", "BEADG", "DADG", "CGCF"}

TabDefaults == [tuning |-> "EADG"]

\* the field tab_text of Tab: Field(min_length=10) under
\* str_strip_whitespace, then validate_tab_format
TabTextField(v) ==
    Then(StrField(v, TRUE, [min_length |-> 10]), validate_tab_format)

\* Tab: tuning is a Literal, difficulty carries Field(ge=1, le=5), tab_text
\* Field(min_length=10) and validate_tab_format, bars is a list of BarMarker
\* with Field(min_length=1) and validate_bars_order; the error answered is
\* that of the first field that fails
Tab(fields) ==
    LET raw == WithDefaults(fields, TabDefaults)
        difficulty == IntField(raw.difficulty, 1, 5)
        tab_text   == TabTextField(raw.tab_text)
    IN
    IF ~LiteralField(raw.tuning, Tunings).ok
    THEN Raise("ValidationError", "tuning: literal_error")
    ELSE IF ~difficulty.ok
    THEN Raise("ValidationError", difficulty.msg)
    ELSE IF ~tab_text.ok
    THEN Raise("ValidationError", tab_text.msg)
    ELSE IF \E i \in 1..Len(raw.bars) : ~BarMarker(raw.bars[i]).ok
    THEN Raise("ValidationError", "bars: invalid BarMarker")
    ELSE IF Len(raw.bars) < 1
    THEN Raise("ValidationError", "bars: too_short")
    ELSE LET r == validate_bars_order(raw.bars) IN
         IF r.ok THEN Return([raw EXCEPT !.tab_text = tab_text.value,
                                         !.bars = r.value])
         ELSE Raise("ValidationError", r.msg)

\* the tolerance 1.0 of validate_tab_sync, in tenths of a second
SyncTolerance == 10

Abs(x) == IF x < 0 THEN 0 - x ELSE x

\* a plausible slip: >= instead of >
validate_tab_sync_strict(v, info_data) ==
    IF "sample_map" \in DOMAIN info_data /\ Len(v.bars) > 0
       /\ Abs(v.bars[1].start_sec - info_data.sample_map.original_start_sec) >= SyncTolerance
    THEN Raise("ValueError", "First tab bar timing should align closely with sample start")
    ELSE Return(v)

\* PagePayload.validate_tab_sync: info_data is info.data, the fields validated
\* before tab
validate_tab_sync(v, info_data) ==
    IF "sample_map" \in DOMAIN info_data /\ Len(v.bars) > 0
       /\ Abs(v.bars[1].start_sec - info_data.sample_map.original_start_sec) > SyncTolerance
    THEN Raise("ValueError", "First tab bar timing should align closely with sample start")
    ELSE Return(v)

\* the errors a failed field leaves in the ValidationError of PagePayload: a
\* Track or an Original brings the errors of its fields, a SampleMap or a Tab
\* its one error
SubErrors(r) == IF r.ok THEN <<>> ELSE r.msg
OneError(r) == IF r.ok THEN <<>> ELSE <<r.msg>>

\* info.data as validate_tab_sync finds it: the fields declared before tab
\* that validated
InfoData(tr, og, sm) ==
    LET validated == [track |-> tr, original |-> og, sample_map |-> sm] IN
    [f \in {g \in DOMAIN validated : validated[g].ok} |-> validated[f].value]

\* a plausible slip: the errors of sample_map are not collected, so that a
\* payload whose sample_map failed is judged on its other fields
PagePayloadOf_dropsmap(tr, og, sm, tab) ==
    LET errors == SubErrors(tr) \o SubErrors(og) \o OneError(tab)
    IN  IF errors # <<>> THEN Raise("ValidationError", errors)
        ELSE Return([track |-> tr.value, original |-> og.value,
                     sample_map |-> IF sm.ok THEN sm.value ELSE NoneStr,
                     tab |-> tab.value])

\* the outcome of PagePayload once its four fields have been validated: the
\* errors of all of them, or the record
PagePayloadOf(tr, og, sm, tab) ==
    LET errors == SubErrors(tr) \o SubErrors(og) \o OneError(sm) \o OneError(tab)
    IN  IF errors # <<>> THEN Raise("ValidationError", errors)
        ELSE Return([track |-> tr.value, original |-> og.value,
                     sample_map |-> sm.value, tab |-> tab.value])

\* the field tab of PagePayload: validate_tab_sync runs only on a tab that is
\* a valid Tab
TabField(tb, info_data) ==
    IF tb.ok THEN validate_tab_sync(tb.value, info_data) ELSE tb

\* the fields of PagePayload validated in the order of their declaration
\* (track, original, sample_map, tab); a field that fails is left out of
\* info.data
PagePayloadFields(tr, og, sm, tb) ==
    PagePayloadOf(tr, og, sm, TabField(tb, InfoData(tr, og, sm)))

\* PagePayload
PagePayload(raw) ==
    PagePayloadFields(Track(raw.track), Original(raw.original),
                      SampleMap(raw.sample_map), Tab(raw.tab))

\* BaseModel.model_dump(): the object as plain data, a dict of its declared
\* fields, every sub-model a dict of its own, the bars a list of dicts
model_dump(p) ==
    [track      |-> [title |-> p.track.title, artist |-> p.track.artist,
                     year |-> p.track.year, youtube_id |-> p.track.youtube_id,
                     spotify_id |-> p.track.spotify_id],
     original   |-> [title |-> p.original.title, artist |-> p.original.artist,
                     year |-> p.original.year,
                     youtube_id |-> p.original.youtube_id,
                     spotify_id |-> p.original.spotify_id],
     sample_map |-> [is_bass_sample |-> p.sample_map.is_bass_sample,
                     sample_type |-> p.sample_map.sample_type,
                     track_start_sec |-> p.sample_map.track_start_sec,
                     original_start_sec |-> p.sample_map.original_start_sec,
                     notes |-> p.sample_map.notes],
     tab        |-> [tuning |-> p.tab.tuning, difficulty |-> p.tab.difficulty,
                     tab_text |-> p.tab.tab_text,
                     bars |-> [i \in 1..Len(p.tab.bars) |->
                                  [bar |-> p.tab.bars[i].bar,
                                   start_sec |-> p.tab.bars[i].start_sec]]]]

-----------------------------------------------------------------------------
(* The lookup store (app/models.py).  A Python dict keeps its keys in the  *)
(* order of their first insertion: it is a sequence of [slug, rec] entries *)
(* with no slug twice.                                                     *)

None == [none |-> TRUE]

Keys(d) == [i \in 1..Len(d) |-> d[i].slug]

\* `slug in self._data`
InDict(d, slug) == \E i \in 1..Len(d) : d[i].slug = slug

\* self._data[slug] = rec: a new key goes to the end, a present key keeps
\* its place and takes the new value
DictSet(d, slug, rec) ==
    IF InDict(d, slug)
    THEN [i \in 1..Len(d) |-> IF d[i].slug = slug THEN [slug |-> slug, rec |-> rec] ELSE d[i]]
    ELSE Append(d, [slug |-> slug, rec |-> rec])

IsPrefix(a, b) == Len(a) <= Len(b) /\ SubSeq(b, 1, Len(a)) = a

\* a plausible slip: the first key that starts with the slug matches
get_pair_by_slug_prefix(d, slug) ==
    IF \E i \in 1..Len(d) : IsPrefix(slug, d[i].slug)
    THEN d[CHOOSE i \in 1..Len(d) :
               /\ IsPrefix(slug, d[i].slug)
               /\ \A j \in 1..(i - 1) : ~IsPrefix(slug, d[j].slug)].rec
    ELSE None

\* InMemoryDatabase.get_pair_by_slug: self._data.get(slug)
get_pair_by_slug(d, slug) ==
    IF InDict(d, slug)
    THEN d[CHOOSE i \in 1..Len(d) : d[i].slug = slug].rec
    ELSE None

\* a plausible slip: the keys come back newest first
list_all_pairs_reversed(d) == [i \in 1..Len(d) |-> d[Len(d) + 1 - i].slug]

\* InMemoryDatabase.list_all_pairs: list(self._data.keys())
list_all_pairs(d) == Keys(d)

\* a plausible slip: the guard is missing and a present slug is overwritten
add_pair_overwrite(d, slug, rec) ==
    [data |-> DictSet(d, slug, rec), ret |-> TRUE]

\* InMemoryDatabase.add_pair, run without interruption: the store after the
\* call and the value returned
add_pair(d, slug, rec) ==
    IF InDict(d, slug)
    THEN [data |-> d, ret |-> FALSE]
    ELSE [data |-> DictSet(d, slug, rec), ret |-> TRUE]

-----------------------------------------------------------------------------
(* Seed data of InMemoryDatabase._load_sample_data *)

Bar(b, t) == [bar |-> b, start_sec |-> t]

\* the identifiers and the tab body the tests build their records with
TestYoutubeId == <<"_", "J", "Z", "o", "m", "_", "g", "V", "f", "u", "w">>
TestSpotifyId ==
    <<"5", "B", "y", "A", "I", "l", "E", "E", "n", "x", "Y", "d", "v", "p",
      "n", "e", "z", "g", "7", "H", "T", "X">>
TestTabText == <<"G", "|", "-", "-", "-", "-", "-", "-", "-", "-", "|">>

\* the raw fields of a record with these titles, sample starts and bars
Pair(track_title, original_title, track_start, original_start, bars) ==
    [track      |-> [title |-> track_title, artist |-> <<"T", "e", "s", "t">>,
                     year |-> 2020, youtube_id |-> TestYoutubeId,
                     spotify_id |-> TestSpotifyId],
     original   |-> [title |-> original_title, artist |-> <<"T", "e", "s", "t">>,
                     year |-> 2020, youtube_id |-> TestYoutubeId],
     sample_map |-> [track_start_sec |-> track_start,
                     original_start_sec |-> original_start],
     tab        |-> [difficulty |-> 2, tab_text |-> TestTabText, bars |-> bars]]

\* the fields of juicy_data (models.py lines 30-66)
juicy_data ==
    [track      |-> [title      |-> <<"J", "u", "i", "c", "y">>,
                     artist     |-> <<"T", "h", "e", " ", "N", "o", "t", "o",
                                      "r", "i", "o", "u", "s", " ", "B", ".",
                                      "I", ".", "G", ".">>,
                     year       |-> 1994,
                     youtube_id |-> <<"_", "J", "Z", "o", "m", "_", "g", "V",
                                      "f", "u", "w">>,
                     spotify_id |-> <<"5", "B", "y", "A", "I", "l", "E", "E",
                                      "n", "x", "Y", "d", "v", "p", "n", "e",
                                      "z", "g", "7", "H", "T", "X">>],
     original   |-> [title      |-> <<"J", "u", "i", "c", "y", " ", "F", "r",
                                      "u", "i", "t">>,
                     artist     |-> <<"M", "t", "u", "m", "e">>,
                     year       |-> 1983,
                     youtube_id |-> <<"v", "G", "0", "Z", "v", "h", "D", "6",
                                      "Y", "K", "I">>,
                     spotify_id |-> <<"4", "x", "d", "B", "r", "k", "0", "n",
                                      "C", "O", "A", "h", "F", "D", "E", "Q",
                                      "2", "1", "T", "0", "W", "1">>],
     sample_map |-> [is_bass_sample |-> TRUE,
                     sample_type |-> "direct",
                     track_start_sec |-> 120,
                     original_start_sec |-> 0,
                     notes |-> <<"C", "l", "a", "s", "s", "i", "c", " ", "d",
                                "i", "r", "e", "c", "t", " ", "b", "a", "s",
                                "s", " ", "l", "i", "n", "e", " ", "l", "o",
                                "o", "p", " ", "f", "r", "o", "m", " ", "M",
                                "t", "u", "m", "e", "'", "s", " ", "o", "r",
                                "i", "g", "i", "n", "a", "l">>],
     tab        |-> [tuning     |-> "EADG",
                     difficulty |-> 2,
                     tab_text   |->
                         <<"G", "|", "-", "-", "-", "-", "-", "-", "-", "-",
                           "-", "-", "-", "-", "-", "-", "-", "-", "|", "-",
                           "-", "-", "-", "-", "-", "-", "-", "-", "-", "-",
                           "-", "-", "-", "-", "-", "|", "\n", "D", "|", "-",
                           "-", "-", "-", "-", "-", "-", "-", "-", "-", "-",
                           "-", "-", "-", "-", "-", "|", "-", "-", "-", "-",
                           "-", "-", "-", "-", "-", "-", "-", "-", "-", "-",
                           "-", "-", "|", "\n", "A", "|", "-", "-", "5", "-",
                           "5", "-", "-", "3", "-", "3", "-", "-", "1", "-",
                           "1", "-", "|", "-", "-", "0", "-", "-", "-", "-",
                           "1", "-", "-", "3", "-", "-", "-", "-", "-", "|",
                           "\n", "E", "|", "-", "-", "-", "-", "-", "-", "-",
                           "-", "-", "-", "-", "-", "-", "-", "-", "-", "|",
                           "-", "-", "-", "-", "-", "-", "-", "-", "-", "-",
                           "-", "-", "-", "-", "-", "-", "|">>,
                     bars       |-> <<Bar(1, 0), Bar(2, 41)>>]]

\* the fields of gthang_data (models.py lines 69-104)
gthang_data ==
    [track      |-> [title      |-> <<"N", "u", "t", "h", "i", "n", "'", " ",
                                      "B", "u", "t", " ", "a", " ", "'", "G",
                                      "'", " ", "T", "h", "a", "n", "g">>,
                     artist     |-> <<"D", "r", ".", " ", "D", "r", "e", " ",
                                      "f", "t", ".", " ", "S", "n", "o", "o",
                                      "p", " ", "D", "o", "g", "g">>,
                     year       |-> 1992,
                     youtube_id |-> <<"Q", "Z", "X", "c", "3", "9", "h", "T",
                                      "8", "t", "4">>,
                     spotify_id |-> <<"6", "L", "t", "7", "C", "j", "L", "G",
                                      "6", "7", "M", "S", "h", "j", "6", "h",
                                      "t", "5", "s", "1", "Z", "X">>],
     original   |-> [title      |-> <<"I", " ", "W", "a", "n", "t", "'", "a",
                                      " ", "D", "o", " ", "S", "o", "m", "e",
                                      "t", "h", "i", "n", "g", " ", "F", "r",
                                      "e", "a", "k", "y", " ", "t", "o", " ",
                                      "Y", "o", "u">>,
                     artist     |-> <<"L", "e", "o", "n", " ", "H", "a", "y",
                                      "w", "o", "o", "d">>,
                     year       |-> 1975,
                     youtube_id |-> <<"3", "7", "V", "T", "c", "n", "K", "r",
                                      "F", "N", "I">>,
                     spotify_id |-> NoneStr],
     sample_map |-> [is_bass_sample |-> TRUE,
                     sample_type |-> "interpolation",
                     track_start_sec |-> 85,
                     original_start_sec |-> 152,
                     notes |-> <<"B", "a", "s", "s", " ", "l", "i", "n", "e",
                                " ", "i", "n", "t", "e", "r", "p", "o", "l",
                                "a", "t", "e", "d", " ", "a", "n", "d", " ",
                                "f", "i", "l", "t", "e", "r", "e", "d", " ",
                                "f", "r", "o", "m", " ", "L", "e", "o", "n",
                                " ", "H", "a", "y", "w", "o", "o", "d", " ",
                                "o", "r", "i", "g", "i", "n", "a", "l">>],
     tab        |-> [tuning     |-> "EADG",
                     difficulty |-> 3,
                     tab_text   |->
                         <<"G", "|", "-", "-", "-", "-", "-", "-", "-", "-",
                           "-", "-", "-", "-", "-", "-", "-", "-", "-", "-",
                           "-", "-", "-", "-", "|", "-", "-", "-", "-", "-",
                           "-", "-", "-", "-", "-", "-", "-", "-", "-", "-",
                           "-", "-", "-", "-", "-", "-", "-", "|", "\n", "D",
                           "|", "-", "-", "-", "-", "-", "-", "-", "-", "-",
                           "-", "-", "-", "-", "-", "-", "-", "-", "-", "-",
                           "-", "-", "-", "|", "-", "-", "-", "-", "-", "-",
                           "-", "-", "-", "-", "-", "-", "-", "-", "-", "-",
                           "-", "-", "-", "-", "-", "-", "|", "\n", "A", "|",
                           "-", "-", "7", "-", "7", "-", "5", "-", "5", "-",
                           "-", "3", "-", "3", "-", "1", "-", "1", "-", "-",
                           "-", "-", "|", "-", "-", "5", "-", "5", "-", "3",
                           "-", "3", "-", "-", "1", "-", "1", "-", "-", "-",
                           "-", "-", "-", "-", "-", "|", "\n", "E", "|", "-",
                           "-", "-", "-", "-", "-", "-", "-", "-", "-", "-",
                           "-", "-", "-", "-", "-", "-", "-", "-", "-", "3",
                           "-", "|", "-", "-", "-", "-", "-", "-", "-", "-",
                           "-", "-", "-", "-", "-", "-", "-", "-", "3", "-",
                           "-", "1", "-", "-", "|">>,
                     bars       |-> <<Bar(1, 152), Bar(2, 193)>>]]

\* the fields of power_data (models.py lines 107-157)
power_data ==
    [track      |-> [title      |-> <<"F", "i", "g", "h", "t", " ", "t", "h",
                                      "e", " ", "P", "o", "w", "e", "r">>,
                     artist     |-> <<"P", "u", "b", "l", "i", "c", " ", "E",
                                      "n", "e", "m", "y">>,
                     year       |-> 1989,
                     youtube_id |-> <<"m", "m", "o", "3", "H", "F", "a", "2",
                                      "v", "j", "g">>,
                     spotify_id |-> <<"3", "R", "z", "q", "E", "5", "P", "P",
                                      "M", "9", "C", "f", "p", "Y", "M", "p",
                                      "3", "A", "4", "I", "C", "F">>],
     original   |-> [title      |-> <<"F", "u", "n", "k", "y", " ", "D", "r",
                                      "u", "m", "m", "e", "r">>,
                     artist     |-> <<"J", "a", "m", "e", "s", " ", "B", "r",
                                      "o", "w", "n">>,
                     year       |-> 1970,
                     youtube_id |-> <<"d", "N", "P", "8", "t", "b", "D", "M",
                                      "Z", "N", "E">>,
                     spotify_id |-> NoneStr],
     sample_map |-> [is_bass_sample |-> TRUE,
                     sample_type |-> "replay",
                     track_start_sec |-> 450,
                     original_start_sec |-> 1205,
                     notes |-> <<"R", "e", "-", "r", "e", "c", "o", "r", "d",
                                "e", "d", " ", "b", "a", "s", "s", " ", "l",
                                "i", "n", "e", " ", "i", "n", "s", "p", "i",
                                "r", "e", "d", " ", "b", "y", " ", "J", "a",
                                "m", "e", "s", " ", "B", "r", "o", "w", "n",
                                "'", "s", " ", "o", "r", "i", "g", "i", "n",
                                "a", "l">>],
     tab        |-> [tuning     |-> "EADG",
                     difficulty |-> 4,
                     tab_text   |->
                         <<"#", " ", "M", "a", "i", "n", " ", "V", "e", "r",
                           "s", "e", " ", "(", "b", "a", "s", "e", "d", " ",
                           "o", "n", " ", "J", "a", "m", "e", "s", " ", "B",
                           "r", "o", "w", "n", " ", "'", "F", "u", "n", "k",
                           "y", " ", "P", "r", "e", "s", "i", "d", "e", "n",
                           "t", "'", " ", "s", "a", "m", "p", "l", "e", ")",
                           ":", "\n", "G", "|", "U+2014", "U+2014", "U+2014",
                           "U+2014", "U+2014", "U+2014", "U+2014", "U+2014",
                           "U+2014", "U+2014", "U+2014", "U+2014", "U+2014",
                           "U+2014", "U+2014", "U+2014", "U+2014", "U+2014",
                           "U+2014", "U+2014", "U+2014", "U+2014", "U+2014",
                           "U+2014", "U+2014", "U+2014", "U+2014", "U+2014",
                           "U+2014", "U+2014", "U+2014", "U+2014", "|", "\n",
                           "D", "|", "U+2014", "U+2014", "U+2014", "U+2014",
                           "U+2014", "U+2014", "U+2014", "1", "4", "U+2014",
                           "1", "2", "U+2014", "1", "4", "U+2014", "U+2014",
                           "U+2014", "U+2014", "U+2014", "U+2014", "U+2014",
                           "U+2014", "1", "6", "U+2014", "1", "7", "U+2014",
                           "1", "8", "U+2014", "|", "\n", "A", "|", "U+2014",
                           "U+2014", "U+2014", "U+2014", "U+2014", "U+2014",
                           "U+2014", "U+2014", "U+2014", "U+2014", "U+2014",
                           "U+2014", "U+2014", "U+2014", "U+2014", "U+2014",
                           "U+2014", "U+2014", "U+2014", "U+2014", "U+2014",
                           "U+2014", "U+2014", "U+2014", "U+2014", "U+2014",
                           "U+2014", "U+2014", "U+2014", "U+2014", "U+2014",
                           "U+2014", "|", "\n", "E", "|", "U+2014", "1", "2",
                           "U+2014", "U+2014", "U+2014", "U+2014", "U+2014",
                           "U+2014", "U+2014", "U+2014", "U+2014", "U+2014",
                           "U+2014", "U+2014", "U+2014", "U+2014", "1", "2",
                           "U+2014", "U+2014", "U+2014", "U+2014", "U+2014",
                           "U+2014", "U+2014", "U+2014", "U+2014", "U+2014",
                           "U+2014", "U+2014", "U+2014", "|", "\n", "\n",
                           "#", " ", "B", "r", "i", "d", "g", "e", "/", "B",
                           "r", "e", "a", "k", ":", "\n", "G", "|", "U+2014",
                           "U+2014", "U+2014", "U+2014", "U+2014", "U+2014",
                           "U+2014", "U+2014", "U+2014", "U+2014", "U+2014",
                           "U+2014", "U+2014", "U+2014", "U+2014", "U+2014",
                           "U+2014", "U+2014", "U+2014", "U+2014", "U+2014",
                           "U+2014", "U+2014", "U+2014", "U+2014", "U+2014",
                           "U+2014", "U+2014", "U+2014", "U+2014", "U+2014",
                           "U+2014", "|", "\n", "D", "|", "U+2014", "U+2014",
                           "U+2014", "U+2014", "1", "4", "U+2014", "U+2014",
                           "U+2014", "U+2014", "1", "3", "U+2014", "U+2014",
                           "U+2014", "U+2014", "1", "2", "U+2014", "U+2014",
                           "U+2014", "U+2014", "1", "1", "U+2014", "U+2014",
                           "U+2014", "U+2014", "U+2014", "U+2014", "U+2014",
                           "U+2014", "|", "\n", "A", "|", "U+2014", "U+2014",
                           "U+2014", "U+2014", "U+2014", "U+2014", "U+2014",
                           "U+2014", "U+2014", "U+2014", "U+2014", "U+2014",
                           "U+2014", "U+2014", "U+2014", "U+2014", "U+2014",
                           "U+2014", "U+2014", "U+2014", "U+2014", "U+2014",
                           "U+2014", "U+2014", "U+2014", "U+2014", "U+2014",
                           "U+2014", "U+2014", "U+2014", "U+2014", "U+2014",
                           "|", "\n", "E", "|", "U+2014", "1", "2", "U+2014",
                           "U+2014", "U+2014", "U+2014", "1", "1", "U+2014",
                           "U+2014", "U+2014", "U+2014", "1", "0", "U+2014",
                           "U+2014", "U+2014", "U+2014", "U+2014", "9",
                           "U+2014", "U+2014", "U+2014", "U+2014", "U+2014",
                           "U+2014", "U+2014", "U+2014", "U+2014", "U+2014",
                           "U+2014", "|", "\n", "\n", "#", " ", "C", "h",
                           "o", "r", "u", "s", " ", "H", "o", "o", "k", ":",
                           "\n", "G", "|", "U+2014", "U+2014", "U+2014",
                           "U+2014", "U+2014", "U+2014", "U+2014", "U+2014",
                           "U+2014", "U+2014", "U+2014", "U+2014", "U+2014",
                           "U+2014", "U+2014", "U+2014", "U+2014", "U+2014",
                           "U+2014", "U+2014", "U+2014", "U+2014", "U+2014",
                           "U+2014", "U+2014", "|", "\n", "D", "|", "U+2014",
                           "U+2014", "U+2014", "U+2014", "U+2014", "U+2014",
                           "U+2014", "U+2014", "U+2014", "U+2014", "U+2014",
                           "U+2014", "U+2014", "U+2014", "U+2014", "U+2014",
                           "U+2014", "U+2014", "U+2014", "U+2014", "U+2014",
                           "U+2014", "U+2014", "U+2014", "U+2014", "|", "\n",
                           "A", "|", "U+2014", "U+2014", "U+2014", "U+2014",
                           "U+2014", "U+2014", "U+2014", "U+2014", "U+2014",
                           "U+2014", "U+2014", "U+2014", "U+2014", "U+2014",
                           "U+2014", "U+2014", "U+2014", "U+2014", "U+2014",
                           "U+2014", "U+2014", "U+2014", "U+2014", "U+2014",
                           "U+2014", "|", "\n", "E", "|", "U+2014", "U+2014",
                           "8", "U+2014", "U+2014", "8", "U+2014", "U+2014",
                           "8", "U+2014", "U+2014", "8", "U+2014", "U+2014",
                           "6", "U+2014", "8", "U+2014", "U+2014", "U+2014",
                           "U+2014", "U+2014", "U+2014", "U+2014", "U+2014",
                           "|">>,
                     bars       |-> <<Bar(1, 1205), Bar(2, 1247), Bar(3, 1289), Bar(4, 1331)>>]]

\* the fields of rappers_delight_data (models.py lines 160-196)
rappers_delight_data ==
    [track      |-> [title      |-> <<"R", "a", "p", "p", "e", "r", "'", "s",
                                      " ", "D", "e", "l", "i", "g", "h", "t">>,
                     artist     |-> <<"T", "h", "e", " ", "S", "u", "g", "a",
                                      "r", "h", "i", "l", "l", " ", "G", "a",
                                      "n", "g">>,
                     year       |-> 1979,
                     youtube_id |-> <<"r", "K", "T", "U", "A", "E", "S", "a",
                                      "c", "Q", "M">>,
                     spotify_id |-> <<"3", "Y", "k", "0", "S", "T", "4", "U",
                                      "V", "P", "G", "j", "7", "C", "E", "O",
                                      "o", "H", "C", "F", "1", "5">>],
     original   |-> [title      |-> <<"G", "o", "o", "d", " ", "T", "i", "m",
                                      "e", "s">>,
                     artist     |-> <<"C", "h", "i", "c">>,
                     year       |-> 1979,
                     youtube_id |-> <<"B", "4", "c", "_", "S", "k", "R", "O",
                                      "z", "z", "o">>,
                     spotify_id |-> <<"2", "d", "L", "L", "R", "6", "q", "N",
                                      "W", "f", "I", "d", "a", "h", "o", "6",
                                      "u", "e", "u", "C", "4", "J">>],
     sample_map |-> [is_bass_sample |-> TRUE,
                     sample_type |-> "direct",
                     track_start_sec |-> 120,
                     original_start_sec |-> 0,
                     notes |-> <<"F", "i", "r", "s", "t", " ", "m", "a", "i",
                                "n", "s", "t", "r", "e", "a", "m", " ", "h",
                                "i", "p", "-", "h", "o", "p", " ", "h", "i",
                                "t", " ", "u", "s", "i", "n", "g", " ", "B",
                                "e", "r", "n", "a", "r", "d", " ", "E", "d",
                                "w", "a", "r", "d", "s", "'", " ", "i", "c",
                                "o", "n", "i", "c", " ", "b", "a", "s", "s",
                                " ", "l", "i", "n", "e">>],
     tab        |-> [tuning     |-> "EADG",
                     difficulty |-> 2,
                     tab_text   |->
                         <<"G", "|", "U+2014", "U+2014", "U+2014", "U+2014",
                           "U+2014", "U+2014", "U+2014", "U+2014", "U+2014",
                           "U+2014", "U+2014", "U+2014", "U+2014", "U+2014",
                           "U+2014", "U+2014", "U+2014", "U+2014", "U+2014",
                           "U+2014", "U+2014", "U+2014", "U+2014", "U+2014",
                           "U+2014", "U+2014", "U+2014", "U+2014", "U+2014",
                           "U+2014", "U+2014", "U+2014", "|", "\n", "D", "|",
                           "U+2014", "U+2014", "U+2014", "U+2014", "U+2014",
                           "U+2014", "U+2014", "U+2014", "U+2014", "U+2014",
                           "U+2014", "U+2014", "U+2014", "U+2014", "U+2014",
                           "U+2014", "U+2014", "U+2014", "U+2014", "U+2014",
                           "U+2014", "U+2014", "U+2014", "U+2014", "U+2014",
                           "U+2014", "U+2014", "U+2014", "U+2014", "U+2014",
                           "U+2014", "U+2014", "|", "\n", "A", "|", "U+2014",
                           "7", "U+2014", "U+2014", "U+2014", "U+2014",
                           "U+2014", "U+2014", "U+2014", "U+2014", "U+2014",
                           "U+2014", "U+2014", "U+2014", "U+2014", "U+2014",
                           "5", "U+2014", "6", "U+2014", "7", "U+2014",
                           "U+2014", "U+2014", "U+2014", "U+2014", "U+2014",
                           "U+2014", "U+2014", "U+2014", "U+2014", "|", "\n",
                           "E", "|", "U+2014", "U+2014", "U+2014", "U+2014",
                           "U+2014", "U+2014", "0", "U+2014", "3", "U+2014",
                           "5", "U+2014", "7", "U+2014", "U+2014", "U+2014",
                           "U+2014", "U+2014", "U+2014", "U+2014", "U+2014",
                           "U+2014", "U+2014", "U+2014", "U+2014", "5",
                           "U+2014", "3", "U+2014", "0", "U+2014", "|">>,
                     bars       |-> <<Bar(1, 0), Bar(2, 41)>>]]

\* the fields of california_love_data (models.py lines 199-236)
california_love_data ==
    [track      |-> [title      |-> <<"C", "a", "l", "i", "f", "o", "r", "n",
                                      "i", "a", " ", "L", "o", "v", "e">>,
                     artist     |-> <<"2", "P", "a", "c">>,
                     year       |-> 1995,
                     youtube_id |-> <<"5", "w", "B", "T", "d", "f", "A", "k",
                                      "q", "G", "U">>,
                     spotify_id |-> <<"2", "p", "a", "c", "C", "a", "l", "i",
                                      "f", "o", "r", "n", "i", "a", "L", "o",
                                      "v", "e", "A", "b", "c", "d">>],
     original   |-> [title      |-> <<"D", "a", "n", "c", "e", " ", "F", "l",
                                      "o", "o", "r">>,
                     artist     |-> <<"Z", "a", "p", "p">>,
                     year       |-> 1982,
                     youtube_id |-> <<"k", "Y", "P", "o", "3", "H", "C", "k",
                                      "Y", "d", "8">>,
                     spotify_id |-> <<"z", "a", "p", "p", "D", "a", "n", "c",
                                      "e", "F", "l", "o", "o", "r", "A", "b",
                                      "c", "d", "e", "f", "g", "h">>],
     sample_map |-> [is_bass_sample |-> TRUE,
                     sample_type |-> "direct",
                     track_start_sec |-> 120,
                     original_start_sec |-> 250,
                     notes |-> <<"R", "o", "g", "e", "r", " ", "T", "r", "o",
                                "u", "t", "m", "a", "n", "'", "s", " ", "t",
                                "a", "l", "k", " ", "b", "o", "x", " ", "a",
                                "n", "d", " ", "Z", "a", "p", "p", "'", "s",
                                " ", "s", "i", "g", "n", "a", "t", "u", "r",
                                "e", " ", "b", "a", "s", "s", " ", "f", "u",
                                "n", "k">>],
     tab        |-> [tuning     |-> "EADG",
                     difficulty |-> 3,
                     tab_text   |->
                         <<"#", " ", "Z", "a", "p", "p", "'", "s", " ", "s",
                           "i", "g", "n", "a", "t", "u", "r", "e", " ", "t",
                           "a", "l", "k", "-", "b", "o", "x", " ", "f", "u",
                           "n", "k", " ", "b", "a", "s", "s", ":", "\n", "G",
                           "|", "U+2014", "U+2014", "U+2014", "U+2014",
                           "U+2014", "U+2014", "U+2014", "U+2014", "U+2014",
                           "U+2014", "U+2014", "U+2014", "U+2014", "U+2014",
                           "U+2014", "U+2014", "U+2014", "U+2014", "U+2014",
                           "U+2014", "U+2014", "U+2014", "U+2014", "U+2014",
                           "U+2014", "U+2014", "U+2014", "U+2014", "U+2014",
                           "U+2014", "U+2014", "U+2014", "|", "\n", "D", "|",
                           "U+2014", "U+2014", "U+2014", "U+2014", "U+2014",
                           "U+2014", "U+2014", "U+2014", "U+2014", "U+2014",
                           "U+2014", "U+2014", "U+2014", "U+2014", "U+2014",
                           "U+2014", "U+2014", "U+2014", "U+2014", "U+2014",
                           "U+2014", "U+2014", "U+2014", "U+2014", "U+2014",
                           "U+2014", "U+2014", "U+2014", "U+2014", "U+2014",
                           "U+2014", "U+2014", "|", "\n", "A", "|", "U+2014",
                           "U+2014", "U+2014", "U+2014", "U+2014", "U+2014",
                           "U+2014", "U+2014", "U+2014", "U+2014", "U+2014",
                           "U+2014", "U+2014", "U+2014", "U+2014", "U+2014",
                           "U+2014", "U+2014", "U+2014", "U+2014", "U+2014",
                           "U+2014", "7", "U+2014", "5", "U+2014", "3",
                           "U+2014", "U+2014", "U+2014", "U+2014", "U+2014",
                           "|", "\n", "E", "|", "U+2014", "5", "U+2014", "5",
                           "U+2014", "5", "U+2014", "5", "U+2014", "5",
                           "U+2014", "5", "U+2014", "5", "U+2014", "5",
                           "U+2014", "5", "U+2014", "5", "U+2014", "U+2014",
                           "U+2014", "U+2014", "U+2014", "U+2014", "U+2014",
                           "U+2014", "U+2014", "5", "U+2014", "3", "U+2014",
                           "|">>,
                     bars       |-> <<Bar(1, 250), Bar(2, 290)>>]]

\* the fields of i_get_around_data (models.py lines 239-276)
i_get_around_data ==
    [track      |-> [title      |-> <<"I", " ", "G", "e", "t", " ", "A", "r",
                                      "o", "u", "n", "d">>,
                     artist     |-> <<"2", "P", "a", "c">>,
                     year       |-> 1993,
                     youtube_id |-> <<"Y", "q", "J", "A", "n", "Q", "T", "w",
                                      "m", "J", "s">>,
                     spotify_id |-> <<"2", "p", "a", "c", "I", "G", "e", "t",
                                      "A", "r", "o", "u", "n", "d", "A", "b",
                                      "c", "d", "e", "f", "g", "h">>],
     original   |-> [title      |-> <<"C", "o", "m", "p", "u", "t", "e", "r",
                                      " ", "L", "o", "v", "e">>,
                     artist     |-> <<"Z", "a", "p", "p", " ", "&", " ", "R",
                                      "o", "g", "e", "r">>,
                     year       |-> 1985,
                     youtube_id |-> <<"i", "q", "A", "j", "3", "U", "f", "E",
                                      "q", "p", "A">>,
                     spotify_id |-> <<"z", "a", "p", "p", "C", "o", "m", "p",
                                      "u", "t", "e", "r", "L", "o", "v", "e",
                                      "A", "b", "c", "d", "e", "f">>],
     sample_map |-> [is_bass_sample |-> TRUE,
                     sample_type |-> "direct",
                     track_start_sec |-> 50,
                     original_start_sec |-> 300,
                     notes |-> <<"Z", "a", "p", "p", "'", "s", " ", "r", "o",
                                "b", "o", "t", "i", "c", " ", "f", "u", "n",
                                "k", " ", "b", "a", "s", "s", " ", "d", "r",
                                "i", "v", "e", "s", " ", "t", "h", "e", " ",
                                "d", "i", "g", "i", "t", "a", "l", " ", "s",
                                "o", "u", "l", " ", "m", "o", "v", "e", "m",
                                "e", "n", "t">>],
     tab        |-> [tuning     |-> "EADG",
                     difficulty |-> 4,
                     tab_text   |->
                         <<"#", " ", "D", "i", "g", "i", "t", "a", "l", " ",
                           "f", "u", "n", "k", " ", "b", "a", "s", "s", " ",
                           "w", "i", "t", "h", " ", "s", "y", "n", "t", "h",
                           " ", "b", "a", "s", "s", " ", "e", "l", "e", "m",
                           "e", "n", "t", "s", ":", "\n", "G", "|", "U+2014",
                           "U+2014", "U+2014", "U+2014", "U+2014", "U+2014",
                           "U+2014", "U+2014", "U+2014", "U+2014", "U+2014",
                           "U+2014", "U+2014", "U+2014", "U+2014", "U+2014",
                           "U+2014", "U+2014", "U+2014", "U+2014", "U+2014",
                           "U+2014", "U+2014", "U+2014", "U+2014", "U+2014",
                           "U+2014", "U+2014", "U+2014", "U+2014", "U+2014",
                           "U+2014", "|", "\n", "D", "|", "U+2014", "U+2014",
                           "U+2014", "U+2014", "U+2014", "U+2014", "U+2014",
                           "U+2014", "U+2014", "U+2014", "U+2014", "U+2014",
                           "U+2014", "U+2014", "U+2014", "U+2014", "U+2014",
                           "U+2014", "U+2014", "U+2014", "U+2014", "U+2014",
                           "U+2014", "U+2014", "U+2014", "U+2014", "U+2014",
                           "U+2014", "U+2014", "U+2014", "U+2014", "U+2014",
                           "|", "\n", "A", "|", "U+2014", "U+2014", "U+2014",
                           "U+2014", "U+2014", "U+2014", "U+2014", "U+2014",
                           "U+2014", "U+2014", "U+2014", "U+2014", "U+2014",
                           "U+2014", "U+2014", "U+2014", "U+2014", "U+2014",
                           "U+2014", "U+2014", "U+2014", "U+2014", "U+2014",
                           "U+2014", "U+2014", "5", "U+2014", "7", "U+2014",
                           "5", "U+2014", "3", "|", "\n", "E", "|", "U+2014",
                           "3", "U+2014", "3", "U+2014", "0", "U+2014", "3",
                           "U+2014", "3", "U+2014", "0", "U+2014", "3",
                           "U+2014", "3", "U+2014", "0", "U+2014", "3",
                           "U+2014", "3", "U+2014", "0", "U+2014", "U+2014",
                           "U+2014", "U+2014", "U+2014", "U+2014", "U+2014",
                           "U+2014", "U+2014", "|">>,
                     bars       |-> <<Bar(1, 300), Bar(2, 325)>>]]

\* the fields of cream_data (models.py lines 279-316)
cream_data ==
    [track      |-> [title      |-> <<"C", ".", "R", ".", "E", ".", "A", ".",
                                      "M", ".">>,
                     artist     |-> <<"W", "u", "-", "T", "a", "n", "g", " ",
                                      "C", "l", "a", "n">>,
                     year       |-> 1993,
                     youtube_id |-> <<"P", "B", "w", "A", "x", "m", "r", "E",
                                      "1", "9", "4">>,
                     spotify_id |-> <<"w", "u", "T", "a", "n", "g", "C", "r",
                                      "e", "a", "m", "A", "b", "c", "d", "e",
                                      "f", "g", "h", "i", "j", "k">>],
     original   |-> [title      |-> <<"A", "s", " ", "L", "o", "n", "g", " ",
                                      "A", "s", " ", "I", "'", "v", "e", " ",
                                      "G", "o", "t", " ", "Y", "o", "u">>,
                     artist     |-> <<"T", "h", "e", " ", "C", "h", "a", "r",
                                      "m", "e", "l", "s">>,
                     year       |-> 1967,
                     youtube_id |-> <<"7", "4", "X", "5", "G", "E", "F", "8",
                                      "q", "z", "M">>,
                     spotify_id |-> <<"c", "h", "a", "r", "m", "e", "l", "s",
                                      "A", "s", "L", "o", "n", "g", "A", "b",
                                      "c", "d", "e", "f", "g", "h">>],
     sample_map |-> [is_bass_sample |-> TRUE,
                     sample_type |-> "direct",
                     track_start_sec |-> 80,
                     original_start_sec |-> 150,
                     notes |-> <<"C", "l", "a", "s", "s", "i", "c", " ", "s",
                                "o", "u", "l", " ", "b", "a", "s", "s", " ",
                                "l", "i", "n", "e", " ", "f", "r", "o", "m",
                                " ", "T", "h", "e", " ", "C", "h", "a", "r",
                                "m", "e", "l", "s", "'", " ", "d", "e", "e",
                                "p", " ", "c", "u", "t">>],
     tab        |-> [tuning     |-> "EADG",
                     difficulty |-> 2,
                     tab_text   |->
                         <<"#", " ", "C", "l", "a", "s", "s", "i", "c", " ",
                           "6", "0", "s", " ", "s", "o", "u", "l", " ", "b",
                           "a", "s", "s", " ", "g", "r", "o", "o", "v", "e",
                           ":", "\n", "G", "|", "U+2014", "U+2014", "U+2014",
                           "U+2014", "U+2014", "U+2014", "U+2014", "U+2014",
                           "U+2014", "U+2014", "U+2014", "U+2014", "U+2014",
                           "U+2014", "U+2014", "U+2014", "U+2014", "U+2014",
                           "U+2014", "U+2014", "U+2014", "U+2014", "U+2014",
                           "U+2014", "U+2014", "U+2014", "U+2014", "U+2014",
                           "U+2014", "U+2014", "U+2014", "U+2014", "|", "\n",
                           "D", "|", "U+2014", "U+2014", "U+2014", "U+2014",
                           "U+2014", "U+2014", "U+2014", "U+2014", "U+2014",
                           "U+2014", "U+2014", "U+2014", "U+2014", "U+2014",
                           "U+2014", "U+2014", "U+2014", "U+2014", "U+2014",
                           "U+2014", "U+2014", "U+2014", "U+2014", "U+2014",
                           "U+2014", "U+2014", "U+2014", "U+2014", "U+2014",
                           "U+2014", "U+2014", "U+2014", "|", "\n", "A", "|",
                           "U+2014", "U+2014", "U+2014", "U+2014", "U+2014",
                           "U+2014", "U+2014", "U+2014", "U+2014", "U+2014",
                           "U+2014", "U+2014", "U+2014", "U+2014", "U+2014",
                           "U+2014", "U+2014", "U+2014", "U+2014", "U+2014",
                           "U+2014", "U+2014", "U+2014", "U+2014", "U+2014",
                           "U+2014", "U+2014", "U+2014", "U+2014", "U+2014",
                           "U+2014", "U+2014", "|", "\n", "E", "|", "U+2014",
                           "3", "U+2014", "U+2014", "U+2014", "U+2014",
                           "U+2014", "U+2014", "U+2014", "U+2014", "3",
                           "U+2014", "U+2014", "U+2014", "U+2014", "U+2014",
                           "U+2014", "U+2014", "U+2014", "3", "U+2014",
                           "U+2014", "U+2014", "U+2014", "U+2014", "U+2014",
                           "U+2014", "U+2014", "3", "U+2014", "U+2014",
                           "U+2014", "U+2014", "|">>,
                     bars       |-> <<Bar(1, 150), Bar(2, 190)>>]]

\* the fields of protect_ya_neck_data (models.py lines 319-356)
protect_ya_neck_data ==
    [track      |-> [title      |-> <<"P", "r", "o", "t", "e", "c", "t", " ",
                                      "Y", "a", " ", "N", "e", "c", "k">>,
                     artist     |-> <<"W", "u", "-", "T", "a", "n", "g", " ",
                                      "C", "l", "a", "n">>,
                     year       |-> 1992,
                     youtube_id |-> <<"R", "0", "I", "U", "R", "4", "g", "k",
                                      "P", "I", "E">>,
                     spotify_id |-> <<"w", "u", "T", "a", "n", "g", "P", "r",
                                      "o", "t", "e", "c", "t", "A", "b", "c",
                                      "d", "e", "f", "g", "h", "i">>],
     original   |-> [title      |-> <<"H", "o", "l", "y", " ", "T", "h", "u",
                                      "r", "s", "d", "a", "y">>,
                     artist     |-> <<"D", "a", "v", "i", "d", " ", "A", "x",
                                      "e", "l", "r", "o", "d">>,
                     year       |-> 1968,
                     youtube_id |-> <<"b", "G", "A", "B", "1", "1", "Z", "i",
                                      "P", "e", "w">>,
                     spotify_id |-> <<"a", "x", "e", "l", "r", "o", "d", "H",
                                      "o", "l", "y", "T", "h", "u", "r", "s",
                                      "d", "a", "y", "A", "b", "c">>],
     sample_map |-> [is_bass_sample |-> TRUE,
                     sample_type |-> "interpolation",
                     track_start_sec |-> 0,
                     original_start_sec |-> 450,
                     notes |-> <<"P", "s", "y", "c", "h", "e", "d", "e", "l",
                                "i", "c", " ", "o", "r", "c", "h", "e", "s",
                                "t", "r", "a", "l", " ", "b", "a", "s", "s",
                                " ", "t", "r", "a", "n", "s", "f", "o", "r",
                                "m", "e", "d", " ", "i", "n", "t", "o", " ",
                                "r", "a", "w", " ", "h", "i", "p", "-", "h",
                                "o", "p">>],
     tab        |-> [tuning     |-> "EADG",
                     difficulty |-> 3,
                     tab_text   |->
                         <<"#", " ", "O", "r", "c", "h", "e", "s", "t", "r",
                           "a", "l", " ", "b", "a", "s", "s", " ", "w", "i",
                           "t", "h", " ", "p", "s", "y", "c", "h", "e", "d",
                           "e", "l", "i", "c", " ", "e", "d", "g", "e", ":",
                           "\n", "G", "|", "U+2014", "U+2014", "U+2014",
                           "U+2014", "U+2014", "U+2014", "U+2014", "U+2014",
                           "U+2014", "U+2014", "U+2014", "U+2014", "U+2014",
                           "U+2014", "U+2014", "U+2014", "U+2014", "U+2014",
                           "U+2014", "U+2014", "U+2014", "U+2014", "U+2014",
                           "U+2014", "U+2014", "U+2014", "U+2014", "U+2014",
                           "U+2014", "U+2014", "U+2014", "U+2014", "|", "\n",
                           "D", "|", "U+2014", "U+2014", "U+2014", "U+2014",
                           "U+2014", "U+2014", "U+2014", "U+2014", "U+2014",
                           "U+2014", "U+2014", "U+2014", "U+2014", "U+2014",
                           "U+2014", "U+2014", "U+2014", "U+2014", "U+2014",
                           "U+2014", "U+2014", "U+2014", "U+2014", "U+2014",
                           "U+2014", "U+2014", "U+2014", "U+2014", "U+2014",
                           "U+2014", "U+2014", "U+2014", "|", "\n", "A", "|",
                           "U+2014", "U+2014", "U+2014", "U+2014", "U+2014",
                           "U+2014", "U+2014", "U+2014", "U+2014", "U+2014",
                           "U+2014", "U+2014", "U+2014", "U+2014", "U+2014",
                           "U+2014", "3", "U+2014", "5", "U+2014", "3",
                           "U+2014", "1", "U+2014", "U+2014", "U+2014",
                           "U+2014", "U+2014", "U+2014", "U+2014", "U+2014",
                           "U+2014", "|", "\n", "E", "|", "U+2014", "1",
                           "U+2014", "U+2014", "U+2014", "U+2014", "U+2014",
                           "U+2014", "U+2014", "U+2014", "1", "U+2014",
                           "U+2014", "U+2014", "U+2014", "U+2014", "U+2014",
                           "U+2014", "U+2014", "U+2014", "U+2014", "U+2014",
                           "U+2014", "U+2014", "U+2014", "1", "U+2014", "3",
                           "U+2014", "1", "U+2014", "0", "|">>,
                     bars       |-> <<Bar(1, 450), Bar(2, 510)>>]]

SlugJuicy ==
    <<"n", "o", "t", "o", "r", "i", "o", "u", "s", "-", "b", "i", "g", "-",
      "j", "u", "i", "c", "y">>
SlugGThang ==
    <<"d", "r", "-", "d", "r", "e", "-", "n", "u", "t", "h", "i", "n", "-",
      "b", "u", "t", "-", "g", "-", "t", "h", "a", "n", "g">>
SlugPower ==
    <<"p", "u", "b", "l", "i", "c", "-", "e", "n", "e", "m", "y", "-",
      "f", "i", "g", "h", "t", "-", "t", "h", "e", "-", "p", "o", "w", "e", "r">>
SlugRappersDelight ==
    <<"s", "u", "g", "a", "r", "h", "i", "l", "l", "-", "g", "a", "n", "g", "-",
      "r", "a", "p", "p", "e", "r", "s", "-", "d", "e", "l", "i", "g", "h", "t">>
SlugCaliforniaLove ==
    <<"2", "p", "a", "c", "-", "c", "a", "l", "i", "f", "o", "r", "n", "i", "a",
      "-", "l", "o", "v", "e">>
SlugIGetAround ==
    <<"2", "p", "a", "c", "-", "i", "-", "g", "e", "t", "-", "a", "r", "o", "u", "n", "d">>
SlugCream ==
    <<"w", "u", "-", "t", "a", "n", "g", "-", "c", "l", "a", "n", "-", "c", "r", "e", "a", "m">>
SlugProtectYaNeck ==
    <<"w", "u", "-", "t", "a", "n", "g", "-", "c", "l", "a", "n", "-",
      "p", "r", "o", "t", "e", "c", "t", "-", "y", "a", "-", "n", "e", "c", "k">>

Entry(slug, rec) == [slug |-> slug, rec |-> rec]

\* a reference to a PagePayload object: the dict holds references, and so does
\* whoever got a record from it
Ref(name) == [ref |-> name]

\* self._data after _load_sample_data: every record was built by PagePayload
\* and the assignments are made in this order
SeedData ==
    <<Entry(SlugJuicy, Ref("juicy_data")),
      Entry(SlugGThang, Ref("gthang_data")),
      Entry(SlugPower, Ref("power_data")),
      Entry(SlugRappersDelight, Ref("rappers_delight_data")),
      Entry(SlugCaliforniaLove, Ref("california_love_data")),
      Entry(SlugIGetAround, Ref("i_get_around_data")),
      Entry(SlugCream, Ref("cream_data")),
      Entry(SlugProtectYaNeck, Ref("protect_ya_neck_data"))>>

-----------------------------------------------------------------------------
(* The endpoints (app/api/pairs.py) *)

\* the classes an exception of the given type is an instance of:
\* pydantic's ValidationError derives from ValueError, HTTPException
\* derives from Exception only
Bases(type) ==
    CASE type = "ValueError"      -> {"ValueError", "Exception"}
      [] type = "ValidationError" -> {"ValidationError", "ValueError", "Exception"}
      [] type = "KeyError"        -> {"KeyError", "Exception"}
      [] type = "TypeError"       -> {"TypeError", "Exception"}
      [] type = "HTTPException"   -> {"HTTPException", "Exception"}
      [] OTHER                    -> {"Exception"}

IsInstance(e, class) == class \in Bases(e.type)

\* get_safe_error_message returning the exception's own text for a type
\* outside its table, debug or not
get_safe_error_message_leaky(error, dbg) ==
    IF dbg THEN error.msg
    ELSE CASE error.type = "ValueError"      -> "Invalid input data provided"
           [] error.type = "ValidationError" -> "Data validation failed"
           [] error.type = "KeyError"        -> "Required data missing"
           [] error.type = "TypeError"       -> "Invalid data type provided"
           [] OTHER -> error.msg

\* SecurityUtils.get_safe_error_message; str(error) is the exception's msg
get_safe_error_message(error, dbg) ==
    IF dbg THEN error.msg
    ELSE CASE error.type = "ValueError"      -> "Invalid input data provided"
           [] error.type = "ValidationError" -> "Data validation failed"
           [] error.type = "KeyError"        -> "Required data missing"
           [] error.type = "TypeError"       -> "Invalid data type provided"
           [] OTHER -> "An error occurred processing your request"

HTTPException(status_code, detail) ==
    [type |-> "HTTPException", status_code |-> status_code, msg |-> detail]

\* the except clauses of get_pair, tried in the order written: the first
\* whose class the exception is an instance of handles it
get_pair_except(e, dbg) ==
    IF IsInstance(e, "ValueError")
    THEN HTTPException(422, get_safe_error_message(e, dbg))
    ELSE IF IsInstance(e, "ValidationError")
    THEN HTTPException(500, "Internal data validation error")
    ELSE HTTPException(500, get_safe_error_message(e, dbg))

\* what the caller of get_pair sees when the body raised e
Failed(e, dbg, store_called) ==
    LET h == get_pair_except(e, dbg) IN
    [status |-> h.status_code, detail |-> h.msg, body |-> None,
     raised |-> e.type, store_called |-> store_called]

\* get_pair after PagePayload.model_validate(pair_data.model_dump())
get_pair_validated(v, dbg) ==
    IF ~v.ok THEN Failed(v, dbg, TRUE)
    ELSE [status |-> 200, detail |-> "", body |-> v.value,
          raised |-> "", store_called |-> TRUE]

\* get_pair from the call of get_pair_by_slug on: 404 for None, or the
\* record validated again
get_pair_found(clean, pair_data, dbg) ==
    IF pair_data = None
    THEN Failed(HTTPException(404, <<"Track pair not found: ", clean.value>>),
                dbg, TRUE)
    ELSE get_pair_validated(PagePayload(model_dump(pair_data)), dbg)

\* get_pair once the slug has been through sanitize_slug
get_pair_clean(clean, d, dbg) ==
    IF ~clean.ok THEN Failed(clean, dbg, FALSE)
    ELSE get_pair_found(clean, get_pair_by_slug(d, clean.value), dbg)

\* get_pair, the function: the status and detail of the HTTPException it
\* raises, or 200 and the re-validated record; `raised` is the exception of
\* the try body ("" if none), `store_called` whether get_pair_by_slug ran
get_pair(slug, d, dbg) == get_pair_clean(sanitize_slug(slug), d, dbg)

\* the declaration of the path parameter: Path(pattern=r"^[a-z0-9-]+$",
\* max_length=100), enforced by the framework before get_pair is entered
PathParamValid(slug) ==
    /\ slug # <<>>
    /\ AllInClass(slug, SlugClass)
    /\ Len(slug) <= SlugMaxLength

\* GET /api/pairs/{slug}: a slug the declaration refuses is answered 422 by
\* the framework and get_pair is not entered
get_pair_route(slug, d, dbg) ==
    IF PathParamValid(slug) THEN get_pair(slug, d, dbg)
    ELSE [status |-> 422, detail |-> "path parameter refused", body |-> None,
          raised |-> "RequestValidationError", store_called |-> FALSE]

\* list_pairs: db.list_all_pairs() returned as it is
list_pairs(d, dbg) == [status |-> 200, body |-> list_all_pairs(d)]

\* the except clause of list_pairs
list_pairs_except(e, dbg) == HTTPException(500, get_safe_error_message(e, dbg))

-----------------------------------------------------------------------------
(* Inputs *)

SeqsUpTo(S, n) == UNION {[1..k -> S] : k \in 0..n}

\* characters of the slugs enumerated exhaustively
SlugChars == {"a", ".", " "}

SlugNonexistent ==
    <<"n", "o", "n", "e", "x", "i", "s", "t", "e", "n", "t", "-", "t", "r", "a", "c", "k">>
SlugInvalidDots ==
    <<"i", "n", "v", "a", "l", "i", "d", ".", ".", "s", "l", "u", "g">>
SlugEtcPasswd ==
    <<".", ".", "/", ".", ".", "/", ".", ".", "/", "e", "t", "c", "/", "p", "a", "s", "s", "w", "d">>

\* slugs a request can carry: every string over SlugChars up to MaxSlugLen,
\* and chosen longer ones (stored keys, the examples of the tests, both
\* sides of the length limit, surrounding whitespace, other case)
RequestSlugs ==
    SeqsUpTo(SlugChars, MaxSlugLen) \cup
    {SlugJuicy, SlugCaliforniaLove, SlugNonexistent, SlugInvalidDots, SlugEtcPasswd,
     SubSeq(SlugJuicy, 1, 9), <<"A">>, <<"0">>, <<"-">>, <<"a", "-">>,
     <<"a", "\\">>, <<"a", "\n">>,
     <<"a", "a", "a">>, <<"/">>, <<"a", "/">>, <<"/", "a">>, <<".", ".", "/", "a">>,
     Repeat("a", SlugMaxLength), Repeat("a", SlugMaxLength + 1),
     <<" ">> \o Repeat("a", SlugMaxLength),
     <<" ">> \o Repeat("a", SlugMaxLength + 1),
     <<" ">> \o SlugJuicy \o <<" ">>}

\* slugs handed to the store directly
StoreSlugs ==
    {<<>>, <<"a">>, <<"A">>, <<"a", "a">>, <<"a", "a", "a">>,
     SlugJuicy, SubSeq(SlugJuicy, 1, 9), SlugNonexistent}

\* slugs offered to add_pair: two new ones, one a prefix of the other, and a
\* seeded one
AddSlugs == {<<"a">>, <<"a", "a">>, SlugJuicy}

\* the fields of two records handed to add_pair
new_pair_1 ==
    Pair(<<"T", "r", "a", "c", "k", " ", "1">>,
         <<"O", "r", "i", "g", "i", "n", "a", "l", " ", "1">>,
         0, 10, <<Bar(1, 0), Bar(2, 40)>>)
new_pair_2 ==
    Pair(<<"T", "r", "a", "c", "k", " ", "2">>,
         <<"O", "r", "i", "g", "i", "n", "a", "l", " ", "2">>,
         30, 0, <<Bar(2, 10), Bar(5, 20)>>)

AddRecords == {Ref("new_pair_1"), Ref("new_pair_2"), Ref("appended_pair")}

\* the fields each PagePayload object is built from
Fields ==
    [juicy_data |-> juicy_data, gthang_data |-> gthang_data,
     power_data |-> power_data, rappers_delight_data |-> rappers_delight_data,
     california_love_data |-> california_love_data,
     i_get_around_data |-> i_get_around_data, cream_data |-> cream_data,
     protect_ya_neck_data |-> protect_ya_neck_data,
     new_pair_1 |-> new_pair_1, new_pair_2 |-> new_pair_2]

\* the objects PagePayload(...) built from them
Built == [n \in DOMAIN Fields |-> PagePayload(Fields[n]).value]

\* the object a reference names, as it was built; appended_pair is the
\* object of new_pair_1's fields whose bars list a caller then extended in
\* place (list.append runs no validator): add_pair takes it as it is
Constructed(r) ==
    IF r.ref = "appended_pair"
    THEN [Built.new_pair_1 EXCEPT !.tab.bars = Append(@, Bar(1, 80))]
    ELSE Built[r.ref]

\* the object a reference names, as it is now: h holds the objects changed
\* since they were built
Object(h, r) == IF r.ref \in DOMAIN h THEN h[r.ref] ELSE Constructed(r)

\* the dict with every reference followed
Resolved(d, h) == [i \in 1..Len(d) |-> Entry(d[i].slug, Object(h, d[i].rec))]

Threads == 1..NumThreads

\* values of the raw fields handed to the record model
BarVals == {0, 1, 2, 3}
TimeVals == {-5, 0, 10, 15}

RawBars == [bar : BarVals, start_sec : TimeVals]

RawPayloads ==
    {Pair(<<"T">>, <<"O">>, 0, os, bs) : os \in TimeVals, bs \in SeqsUpTo(RawBars, MaxBars)}

-----------------------------------------------------------------------------
(* The store and the endpoints, one call at a time *)

Idle == [t \in Threads |-> "idle"]
NoCall == [t \in Threads |-> None]

Init ==
    /\ data = SeedData
    /\ inserted = <<>>
    /\ last = [op |-> "init"]
    /\ debug \in BOOLEAN
    /\ pc = Idle
    /\ call = NoCall
    /\ ret = NoCall
    /\ heap = <<>>
    /\ vin = None
    /\ vout = [op |-> "init"]

AddPair(slug, rec) ==
    LET r == add_pair(data, slug, rec) IN
    /\ data' = r.data
    /\ inserted' = IF r.ret THEN Append(inserted, Entry(slug, rec)) ELSE inserted
    /\ last' = [op |-> "add_pair", slug |-> slug, rec |-> rec, ret |-> r.ret]
    /\ UNCHANGED <<debug, pc, call, ret, heap, vin, vout>>

GetPairBySlug(slug) ==
    /\ last' = [op |-> "get_pair_by_slug", slug |-> slug,
                ret |-> get_pair_by_slug(data, slug)]
    /\ UNCHANGED <<data, inserted, debug, pc, call, ret, heap, vin, vout>>

ListAllPairs ==
    /\ last' = [op |-> "list_all_pairs", ret |-> list_all_pairs(data)]
    /\ UNCHANGED <<data, inserted, debug, pc, call, ret, heap, vin, vout>>

\* get_pair called as a function
GetPair(slug) ==
    /\ last' = [op |-> "get_pair", slug |-> slug, clean |-> sanitize_slug(slug),
                resp |-> get_pair(slug, Resolved(data, heap), debug)]
    /\ UNCHANGED <<data, inserted, debug, pc, call, ret, heap, vin, vout>>

\* a GET /api/pairs/{slug} request; the path segment holds no "/"
GetPairRoute(slug) ==
    /\ ~Contains(slug, <<"/">>)
    /\ slug # <<>>
    /\ last' = [op |-> "GET /api/pairs/{slug}", slug |-> slug,
                resp |-> get_pair_route(slug, Resolved(data, heap), debug)]
    /\ UNCHANGED <<data, inserted, debug, pc, call, ret, heap, vin, vout>>

\* a GET /api/pairs/ request
ListPairs ==
    /\ last' = [op |-> "GET /api/pairs/", resp |-> list_pairs(data, debug)]
    /\ UNCHANGED <<data, inserted, debug, pc, call, ret, heap, vin, vout>>

Next ==
    \/ \E slug \in AddSlugs, rec \in AddRecords : AddPair(slug, rec)
    \/ \E slug \in StoreSlugs : GetPairBySlug(slug)
    \/ ListAllPairs
    \/ \E slug \in RequestSlugs : GetPair(slug)
    \/ \E slug \in RequestSlugs : GetPairRoute(slug)
    \/ ListPairs

Spec == Init /\ [][Next]_vars

-----------------------------------------------------------------------------
(* add_pair called from several threads: a thread can be preempted between *)
(* the membership test and the assignment (nothing in add_pair or in its   *)
(* callers holds a lock)                                                   *)

Begin(t, slug, rec) ==
    /\ pc[t] = "idle"
    /\ pc' = [pc EXCEPT ![t] = "check"]
    /\ call' = [call EXCEPT ![t] = [slug |-> slug, rec |-> rec]]
    /\ UNCHANGED <<data, inserted, last, debug, ret, heap, vin, vout>>

\* `if slug in self._data: return False`
Check(t) ==
    /\ pc[t] = "check"
    /\ IF InDict(data, call[t].slug)
       THEN /\ pc' = [pc EXCEPT ![t] = "done"]
            /\ ret' = [ret EXCEPT ![t] = FALSE]
       ELSE /\ pc' = [pc EXCEPT ![t] = "write"]
            /\ ret' = ret
    /\ UNCHANGED <<data, inserted, last, debug, call, heap, vin, vout>>

\* `self._data[slug] = data; return True`
Write(t) ==
    /\ pc[t] = "write"
    /\ data' = DictSet(data, call[t].slug, call[t].rec)
    /\ inserted' = Append(inserted, Entry(call[t].slug, call[t].rec))
    /\ pc' = [pc EXCEPT ![t] = "done"]
    /\ ret' = [ret EXCEPT ![t] = TRUE]
    /\ UNCHANGED <<last, debug, call, heap, vin, vout>>

NextConc ==
    \/ \E t \in Threads, slug \in AddSlugs, rec \in AddRecords : Begin(t, slug, rec)
    \/ \E t \in Threads : Check(t)
    \/ \E t \in Threads : Write(t)

SpecConc == Init /\ [][NextConc]_vars

-----------------------------------------------------------------------------
(* The store and a caller that keeps the record it got.  get_pair_by_slug  *)
(* returns the stored object itself; the models are declared with          *)
(* validate_assignment and are not frozen.                                 *)

\* values a caller assigns to sample_map.track_start_sec, in tenths
AssignedStarts == {-5, 77}

\* the heap once the object r names has become obj
HeapSet(h, r, obj) ==
    [n \in DOMAIN h \cup {r.ref} |-> IF n = r.ref THEN obj ELSE h[n]]

\* the object once validate_assignment has dealt with the SampleMap sm made
\* of its sample_map and the new value: assigned, or left alone
Assigned(h, r, obj, sm) ==
    IF sm.ok THEN HeapSet(h, r, [obj EXCEPT !.sample_map = sm.value]) ELSE h

\* obj.sample_map.track_start_sec = t
SetAttrTrackStart(h, r, obj, t) ==
    Assigned(h, r, obj, SampleMap([obj.sample_map EXCEPT !.track_start_sec = t]))

\* `pair.sample_map.track_start_sec = t` on the record the last
\* get_pair_by_slug returned: validate_assignment validates the SampleMap
\* with the new value and assigns it, or raises and leaves the object alone
SetTrackStart(t) ==
    /\ last.op \in {"get_pair_by_slug", "setattr"}
    /\ last.ret # None
    /\ heap' = SetAttrTrackStart(heap, last.ret, Object(heap, last.ret), t)
    /\ last' = [op |-> "setattr", ret |-> last.ret, value |-> t]
    /\ UNCHANGED <<data, inserted, debug, pc, call, ret, vin, vout>>

NextRef ==
    \/ \E slug \in AddSlugs, rec \in AddRecords : AddPair(slug, rec)
    \/ \E slug \in StoreSlugs : GetPairBySlug(slug)
    \/ ListAllPairs
    \/ \E t \in AssignedStarts : SetTrackStart(t)

SpecRef == Init /\ [][NextRef]_vars

-----------------------------------------------------------------------------
(* The record model applied to raw input *)

InitVal ==
    /\ data = SeedData
    /\ inserted = <<>>
    /\ last = [op |-> "init"]
    /\ debug = FALSE
    /\ pc = Idle
    /\ call = NoCall
    /\ ret = NoCall
    /\ heap = <<>>
    /\ vin \in RawPayloads
    /\ vout = [op |-> "init"]

\* Tab(bars=...) on raw markers
ValidateTab ==
    /\ vout' = [op |-> "Tab", result |-> Tab(vin.tab)]
    /\ UNCHANGED <<data, inserted, last, debug, pc, call, ret, heap, vin>>

\* validate_bars_order on a list of BarMarker objects
ValidateBarsOrder ==
    /\ \A i \in 1..Len(vin.tab.bars) : BarMarker(vin.tab.bars[i]).ok
    /\ vout' = [op |-> "validate_bars_order",
                result |-> validate_bars_order(vin.tab.bars)]
    /\ UNCHANGED <<data, inserted, last, debug, pc, call, ret, heap, vin>>

\* PagePayload.model_validate on raw data
ValidatePagePayload ==
    /\ vout' = [op |-> "PagePayload", result |-> PagePayload(vin)]
    /\ UNCHANGED <<data, inserted, last, debug, pc, call, ret, heap, vin>>

NextVal ==
    \/ ValidateTab
    \/ ValidateBarsOrder
    \/ ValidatePagePayload

SpecVal == InitVal /\ [][NextVal]_vars

-----------------------------------------------------------------------------
(* Properties of the store *)

\* every insertion the store accepted, in order: the seed, then the
\* add_pair calls that returned True
History == SeedData \o inserted

Inserted(h, slug) == \E i \in 1..Len(h) : h[i].slug = slug

\* the record of the first entry of h under slug
FirstInserted(h, slug) ==
    h[CHOOSE i \in 1..Len(h) :
          /\ h[i].slug = slug
          /\ \A j \in 1..(i - 1) : h[j].slug # slug].rec

GetOps == {"get_pair", "GET /api/pairs/{slug}"}

\* C1, state part: the record under every key is the one of the seed or of
\* the first successful add_pair for that key
C1_FirstInsertKept ==
    \A i \in 1..Len(data) :
        /\ Inserted(History, data[i].slug)
        /\ data[i].rec = FirstInserted(History, data[i].slug)

\* C1, step part: add_pair on a slug that is a key returns False and leaves
\* the store as it was; on an absent slug it returns True and stores the record
C1_AddPairStep ==
    last'.op = "add_pair" /\ last' # last =>
        IF InDict(data, last'.slug)
        THEN last'.ret = FALSE /\ data' = data
        ELSE /\ last'.ret = TRUE
             /\ get_pair_by_slug(data', last'.slug) = last'.rec
             /\ \A i \in 1..Len(data) : data'[i] = data[i]

\* C1: add_pair inserts only when the slug is absent; a present slug gives
\* False and an unchanged store, so the record under a slug stays the one of
\* the seed or of the first successful add_pair
C1_AddPairNeverOverwrites == [](C1_FirstInsertKept) /\ [][C1_AddPairStep]_vars

\* C1 witness: add_pair was refused for a slug that an earlier add_pair had
\* inserted with another record
C1_Witness ==
    /\ last.op = "add_pair"
    /\ last.ret = FALSE
    /\ Inserted(inserted, last.slug)
    /\ get_pair_by_slug(data, last.slug) # last.rec

\* C2: of the add_pair calls that threads made on one slug, at most one
\* returned True
C2_AtMostOneInsertSucceeds ==
    \A t1, t2 \in Threads :
        (/\ t1 # t2
         /\ pc[t1] = "done"
         /\ pc[t2] = "done"
         /\ call[t1].slug = call[t2].slug)
        => ~(ret[t1] /\ ret[t2])

\* C3: get_pair_by_slug(s) returns the record seeded or first inserted under
\* exactly s, and None exactly when nothing was ever inserted under s
C3_ExactMatchLookup ==
    last.op = "get_pair_by_slug" =>
        IF Inserted(History, last.slug)
        THEN last.ret = FirstInserted(History, last.slug)
        ELSE last.ret = None

\* C3 witness: a lookup missed although a stored key starts with the slug
\* looked up
C3_Witness ==
    /\ last.op = "get_pair_by_slug"
    /\ last.ret = None
    /\ last.slug = <<"a">>
    /\ \E i \in 1..Len(inserted) : IsPrefix(last.slug, inserted[i].slug)

NoRepeat(seq) == \A i, j \in 1..Len(seq) : seq[i] = seq[j] => i = j

\* C4: list_all_pairs returns every stored slug once, the seed slugs in the
\* order stored and then the slugs of the successful add_pair calls in the
\* order they succeeded, and GET /api/pairs/ returns that list as it is
C4_ListInInsertionOrder ==
    /\ last.op = "list_all_pairs" =>
           /\ last.ret = Keys(SeedData) \o Keys(inserted)
           /\ NoRepeat(last.ret)
           /\ {last.ret[i] : i \in 1..Len(last.ret)} = {data[i].slug : i \in 1..Len(data)}
    /\ last.op = "GET /api/pairs/" =>
           /\ last.resp.status = 200
           /\ last.resp.body = Keys(SeedData) \o Keys(inserted)

\* C4 witness: the list was taken after two insertions made in an order that
\* is not the sorted one
C4_Witness ==
    /\ last.op = "list_all_pairs"
    /\ Len(inserted) = 2
    /\ inserted[1].slug = <<"a", "a">>
    /\ inserted[2].slug = <<"a">>
    /\ Len(last.ret) = Len(SeedData) + 2

-----------------------------------------------------------------------------
(* Properties of the retrieval endpoint *)

\* C5: a well-formed slug that is not a key of the store is answered 404
C5_MissGives404 ==
    (/\ last.op \in GetOps
     /\ PathParamValid(last.slug)
     /\ ~InDict(data, last.slug))
    => last.resp.status = 404

HasCharOutside(s, class) == \E i \in 1..Len(s) : s[i] \notin class

\* the slugs the claim calls malformed
Malformed(s) ==
    \/ s = <<>>
    \/ HasCharOutside(s, SlugClass)
    \/ Contains(s, <<".", ".">>)
    \/ Contains(s, <<"/">>)
    \/ Contains(s, <<"\\">>)
    \/ Len(s) > 100

\* C6 as stated: every malformed slug is refused by sanitize_slug with a
\* ValueError and answered 422 without a call of get_pair_by_slug
C6_MalformedSlugRejected ==
    /\ (last.op = "get_pair" /\ Malformed(last.slug)) =>
           /\ ~last.clean.ok
           /\ last.resp.status = 422
           /\ ~last.resp.store_called
    /\ (last.op = "GET /api/pairs/{slug}" /\ Malformed(last.slug)) =>
           /\ last.resp.status = 422
           /\ ~last.resp.store_called

\* the slug without the whitespace around it
Trimmed(s) ==
    IF \E i \in 1..Len(s) : s[i] \notin WhitespaceChars
    THEN LET first == CHOOSE i \in 1..Len(s) :
                          /\ s[i] \notin WhitespaceChars
                          /\ \A j \in 1..(i - 1) : s[j] \in WhitespaceChars
             lastc == CHOOSE i \in 1..Len(s) :
                          /\ s[i] \notin WhitespaceChars
                          /\ \A j \in (i + 1)..Len(s) : s[j] \in WhitespaceChars
         IN  SubSeq(s, first, lastc)
    ELSE <<>>

\* C6 as amended: a slug that is malformed once the whitespace around it is
\* removed is refused by sanitize_slug with a ValueError and get_pair answers
\* 422 without a call of get_pair_by_slug; any other slug is accepted as its
\* trimmed form; the route answers every malformed slug 422 without a call
\* of get_pair_by_slug
C6_TrimmedMalformedSlugRejected ==
    /\ (last.op = "get_pair" /\ Malformed(Trimmed(last.slug))) =>
           /\ ~last.clean.ok
           /\ last.clean.type = "ValueError"
           /\ last.resp.status = 422
           /\ ~last.resp.store_called
    /\ (last.op = "get_pair" /\ ~Malformed(Trimmed(last.slug))) =>
           /\ last.clean.ok
           /\ last.clean.value = Trimmed(last.slug)
           /\ last.resp.store_called
    /\ (last.op = "GET /api/pairs/{slug}" /\ Malformed(last.slug)) =>
           /\ last.resp.status = 422
           /\ ~last.resp.store_called

\* C6 witness: get_pair answered '../../../etc/passwd' with 422 and made no
\* call of get_pair_by_slug
C6_Witness ==
    /\ last.op = "get_pair"
    /\ last.slug = SlugEtcPasswd
    /\ last.resp.status = 422
    /\ last.resp.raised = "ValueError"
    /\ ~last.resp.store_called

\* C7: a ValidationError raised while a stored record is validated again is
\* answered 500 with the detail 'Internal data validation error'
C7_ValidationErrorGives500 ==
    (last.op \in GetOps /\ last.resp.raised = "ValidationError") =>
        /\ last.resp.status = 500
        /\ last.resp.detail = "Internal data validation error"

-----------------------------------------------------------------------------
(* Properties of the record model *)

InBars == vin.tab.bars

AllBarMarkers(bars) == \A i \in 1..Len(bars) : bars[i].bar >= 1 /\ bars[i].start_sec >= 0

SharesBarNumber(bars) == \E i, j \in 1..Len(bars) : i # j /\ bars[i].bar = bars[j].bar

\* the start times rise with the bar numbers
RisesWithBarNumber(bars) ==
    \A i, j \in 1..Len(bars) : bars[i].bar < bars[j].bar => bars[i].start_sec < bars[j].start_sec

\* the raw bars make a Tab: BarMarkers, at least one, no bar number twice,
\* start times rising with the bar numbers
WellFormedBars(bars) ==
    /\ Len(bars) >= 1
    /\ AllBarMarkers(bars)
    /\ ~SharesBarNumber(bars)
    /\ RisesWithBarNumber(bars)

\* marker i is the earliest of the list: lowest bar number, smallest start time
IsEarliest(bars, i) ==
    \A j \in 1..Len(bars) :
        bars[i].bar <= bars[j].bar /\ bars[i].start_sec <= bars[j].start_sec

\* C8: a PagePayload is accepted only if its earliest bar marker (lowest bar
\* number, smallest start time, whatever the input order) starts within 1.0 s
\* of sample_map.original_start_sec; among inputs whose sample_map and bars
\* are well formed, a difference above 1.0 s is refused and one of 1.0 s or
\* less accepted
C8_FirstBarWithinTolerance ==
    vout.op = "PagePayload" =>
        /\ vout.result.ok =>
               \E i \in 1..Len(InBars) :
                   /\ IsEarliest(InBars, i)
                   /\ Abs(InBars[i].start_sec - vin.sample_map.original_start_sec) <= 10
                   /\ vout.result.value.tab.bars[1] = InBars[i]
        /\ (WellFormedBars(InBars) /\ vin.sample_map.original_start_sec >= 0
            /\ vin.sample_map.track_start_sec >= 0) =>
               \A i \in 1..Len(InBars) :
                   IsEarliest(InBars, i) =>
                       (vout.result.ok <=>
                            Abs(InBars[i].start_sec - vin.sample_map.original_start_sec) <= 10)

\* C8 witness: a payload was accepted whose bars came in descending order and
\* whose earliest bar starts exactly 1.0 s from original_start_sec
C8_Witness ==
    /\ vout.op = "PagePayload"
    /\ vout.result.ok
    /\ Len(InBars) = 3
    /\ InBars[1].bar > InBars[2].bar
    /\ InBars[2].bar > InBars[3].bar
    /\ Abs(InBars[3].start_sec - vin.sample_map.original_start_sec) = 10

IsPermutation(a, b) ==
    /\ Len(a) = Len(b)
    /\ \E f \in [1..Len(a) -> 1..Len(a)] :
           /\ \A i, j \in 1..Len(a) : f[i] = f[j] => i = j
           /\ \A i \in 1..Len(a) : a[i] = b[f[i]]

\* C9: the bars of an accepted Tab are the input's, sorted ascending by bar
\* number with strictly increasing start times, whatever the input order; an
\* input whose start times do not strictly increase once sorted by bar
\* number is refused
C9_BarsSortedAndIncreasing ==
    /\ (vout.op = "Tab" /\ vout.result.ok) =>
           LET out == vout.result.value.bars IN
           /\ IsPermutation(out, InBars)
           /\ \A i \in 1..(Len(out) - 1) :
                  out[i].bar < out[i + 1].bar /\ out[i].start_sec < out[i + 1].start_sec
    /\ (vout.op = "validate_bars_order" /\ vout.result.ok) =>
           LET out == vout.result.value IN
           /\ IsPermutation(out, InBars)
           /\ \A i \in 1..(Len(out) - 1) :
                  out[i].bar < out[i + 1].bar /\ out[i].start_sec < out[i + 1].start_sec
    /\ (vout.op \in {"Tab", "validate_bars_order"} /\ ~RisesWithBarNumber(InBars)) =>
           ~vout.result.ok
    /\ (vout.op \in {"Tab", "validate_bars_order"} /\ WellFormedBars(InBars)) =>
           vout.result.ok

\* C9 witness: a Tab was accepted whose three bars came in descending order
C9_Witness ==
    /\ vout.op = "Tab"
    /\ vout.result.ok
    /\ Len(InBars) = 3
    /\ InBars[1].bar > InBars[2].bar
    /\ InBars[2].bar > InBars[3].bar
    /\ vout.result.value.bars # InBars

\* C10: a list of BarMarkers in which two share a bar number is refused with
\* 'Duplicate bar numbers are not allowed', whatever the order and the start
\* times, also when the ordering check would fail too
C10_DuplicateReportedFirst ==
    (/\ vout.op \in {"Tab", "validate_bars_order"}
     /\ AllBarMarkers(InBars)
     /\ SharesBarNumber(InBars))
    => /\ ~vout.result.ok
       /\ vout.result.msg = "Duplicate bar numbers are not allowed"

\* C10 witness: a list was refused as duplicate whose start times also fail
\* to increase with the bar numbers
C10_Witness ==
    /\ vout.op = "validate_bars_order"
    /\ SharesBarNumber(InBars)
    /\ ~RisesWithBarNumber(InBars)
    /\ Len(InBars) = 3
    /\ InBars[1].bar > InBars[2].bar
    /\ vout.result.msg = "Duplicate bar numbers are not allowed"

-----------------------------------------------------------------------------
(* The record model applied to raw fields of one record *)

StrTest == <<"T", "e", "s", "t">>
StrTestArtist == <<"T", "e", "s", "t", " ", "A", "r", "t", "i", "s", "t">>

\* titles: empty, whitespace only, the tests' title bare and padded, both
\* sides of the limit of 200, and 200 characters padded
Titles ==
    {<<>>, <<" ">>, <<" ", "\t">>, StrTest, <<" ", " ">> \o StrTest \o <<" ", "\n">>,
     Repeat("a", 200), Repeat("a", 201), <<" ">> \o Repeat("a", 200) \o <<" ">>}

Artists ==
    {<<" ">>, StrTestArtist, <<" ">> \o StrTestArtist \o <<" ">>, Repeat("b", 101)}

Years == {1899, 1900, 2020, 2030, 2031}

\* 'invalid_id', the identifier test_invalid_youtube_id_format hands over
InvalidId == <<"i", "n", "v", "a", "l", "i", "d", "_", "i", "d">>

YoutubeIds ==
    {TestYoutubeId, InvalidId, TestYoutubeId \o <<"x">>, <<" ">> \o TestYoutubeId,
     InvalidId \o <<" ">>, <<"_", "J", "Z", "o", "m", "!", "g", "V", "f", "u", "w">>,
     <<"a", "b", "c", " ", "d", "e", "f", "g", "h", "i", "j">>, <<>>}

\* 'short_id', the identifier test_spotify_id_validation hands over
ShortId == <<"s", "h", "o", "r", "t", "_", "i", "d">>

SpotifyIds ==
    {NoneStr, TestSpotifyId, ShortId, TestSpotifyId \o <<"a">>,
     <<" ">> \o TestSpotifyId \o <<"\n">>,
     SubSeq(TestSpotifyId, 1, 21) \o <<" ">>,
     SubSeq(TestSpotifyId, 1, 21) \o <<"_">>,
     SubSeq(TestSpotifyId, 1, 21) \o <<"U+00E9">>,
     <<>>}

\* the fields handed to Track or Original, with spotify_id given or left out
RawTracks ==
    [title : Titles, artist : Artists, year : Years,
     youtube_id : YoutubeIds, spotify_id : SpotifyIds]
    \cup [title : {StrTest}, artist : {StrTestArtist}, year : {2020},
          youtube_id : YoutubeIds]

SampleTypeVals == {"direct", "interpolation", "replay", "invalid_type", "Direct", ""}
StartVals == {-5, -1, 0, 50, 100, 36000, 36001}

\* the fields handed to SampleMap, with sample_type given or left out
RawSampleMaps ==
    [sample_type : SampleTypeVals, track_start_sec : StartVals,
     original_start_sec : StartVals]
    \cup [track_start_sec : StartVals, original_start_sec : StartVals]

\* tab bodies: the tests' body bare and padded, one of 10 characters, one
\* that reaches 10 characters only with its padding, one without a string
\* indicator, whitespace only, bodies with a tag, with a script scheme and
\* with a comment line, and the body of the seed record power_data
TabTexts ==
    {TestTabText,
     <<" ", "\n">> \o TestTabText \o <<"\n">>,
     <<"G", "|", "-", "-", "-", "-", "-", "-", "-", "|">>,
     <<"G", "|", "-", "-", "-", "-", "-", "-">> \o <<" ", " ">>,
     <<"0", "-", "3", "-", "5", "-", "7", "-", "8", "-", "7", "-", "5">>,
     Repeat(" ", 12),
     <<"<", "b", ">", "G", "|", "-", "-", "-", "-", "-", "-", "-", "-", "|",
        "<", "/", "b", ">">>,
     <<"J", "a", "v", "a", "S", "c", "r", "i", "p", "t", ":", "G", "|", "-",
        "-", "-", "-", "-", "-", "-", "-", "|">>,
     <<"#", " ", "I", "n", "t", "r", "o", ":", "\n", "E", "|", "-", "-",
        "3", "-", "5", "-", "-", "|">>,
     power_data.tab.tab_text}

DifficultyVals == -1..7

\* the fields handed to Tab, with tuning given or left out
RawTabs ==
    [tuning : {"EADG", "CGCF", "EADGBE"}, difficulty : DifficultyVals,
     tab_text : TabTexts, bars : {<<Bar(1, 0)>>}]
    \cup [difficulty : DifficultyVals, tab_text : TabTexts,
          bars : {<<Bar(2, 41), Bar(1, 0)>>}]

\* whole records: the tests' payload with padded or bare strings, bars in
\* either order, the sample starting at the first bar or 1.0 s from it
RawRecords ==
    {[track      |-> [title |-> t, artist |-> StrTestArtist, year |-> 2020,
                      youtube_id |-> y, spotify_id |-> sp],
      original   |-> [title |-> t, artist |-> StrTest, year |-> 1983,
                      youtube_id |-> TestYoutubeId],
      sample_map |-> [track_start_sec |-> 120, original_start_sec |-> os,
                      notes |-> n],
      tab        |-> [difficulty |-> 2, tab_text |-> txt, bars |-> bs]] :
        t \in {StrTest, <<" ">> \o StrTest \o <<" ">>, <<" ">>},
        y \in {TestYoutubeId, <<" ">> \o TestYoutubeId},
        sp \in {NoneStr, <<" ">> \o TestSpotifyId},
        os \in {0, 10, 20},
        n \in {NoneStr, <<" ">> \o StrTest \o <<" ">>},
        txt \in {TestTabText, <<" ", "\n">> \o TestTabText \o <<"\n">>,
                 <<"G", "|", "-", "-", "-", "-", "-", "-">> \o <<" ", " ">>},
        bs \in {<<Bar(1, 0), Bar(2, 41)>>, <<Bar(2, 41), Bar(1, 0)>>,
                <<Bar(3, 82), Bar(1, 0), Bar(2, 41)>>}}

RecInputs ==
    {[kind |-> k, raw |-> r] : k \in {"Track", "Original"}, r \in RawTracks}
    \cup {[kind |-> "SampleMap", raw |-> r] : r \in RawSampleMaps}
    \cup {[kind |-> "Tab", raw |-> r] : r \in RawTabs}
    \cup {[kind |-> "PagePayload", raw |-> r] : r \in RawRecords}

InitRec ==
    /\ data = SeedData
    /\ inserted = <<>>
    /\ last = [op |-> "init"]
    /\ debug = FALSE
    /\ pc = Idle
    /\ call = NoCall
    /\ ret = NoCall
    /\ heap = <<>>
    /\ vin \in RecInputs
    /\ vout = [op |-> "init"]

\* Track(**fields)
ValidateTrack ==
    /\ vin.kind = "Track"
    /\ vout' = [op |-> "Track", result |-> Track(vin.raw)]
    /\ UNCHANGED <<data, inserted, last, debug, pc, call, ret, heap, vin>>

\* Original(**fields)
ValidateOriginal ==
    /\ vin.kind = "Original"
    /\ vout' = [op |-> "Original", result |-> Original(vin.raw)]
    /\ UNCHANGED <<data, inserted, last, debug, pc, call, ret, heap, vin>>

\* SampleMap(**fields)
ValidateSampleMap ==
    /\ vin.kind = "SampleMap"
    /\ vout' = [op |-> "SampleMap", result |-> SampleMap(vin.raw)]
    /\ UNCHANGED <<data, inserted, last, debug, pc, call, ret, heap, vin>>

\* Tab(**fields)
ValidateTabFields ==
    /\ vin.kind = "Tab"
    /\ vout' = [op |-> "Tab", result |-> Tab(vin.raw)]
    /\ UNCHANGED <<data, inserted, last, debug, pc, call, ret, heap, vin>>

\* the second validation, of the dump of what the first one built
Again(first) == IF first.ok THEN PagePayload(model_dump(first.value)) ELSE first

TwiceValidated(first) ==
    [op |-> "PagePayload again", first |-> first, result |-> Again(first)]

\* p = PagePayload.model_validate(raw), then, as get_pair does with a stored
\* record, PagePayload.model_validate(p.model_dump())
ValidateAgain ==
    /\ vin.kind = "PagePayload"
    /\ vout' = TwiceValidated(PagePayload(vin.raw))
    /\ UNCHANGED <<data, inserted, last, debug, pc, call, ret, heap, vin>>

\* SecurityUtils.validate_timestamp on the timestamps handed to SampleMap
ValidateTimestamp ==
    /\ vin.kind = "SampleMap"
    /\ \E t \in {vin.raw.track_start_sec, vin.raw.original_start_sec} :
          vout' = [op |-> "validate_timestamp", timestamp |-> t,
                   result |-> validate_timestamp(t)]
    /\ UNCHANGED <<data, inserted, last, debug, pc, call, ret, heap, vin>>

NextRec ==
    \/ ValidateTrack
    \/ ValidateOriginal
    \/ ValidateSampleMap
    \/ ValidateTimestamp
    \/ ValidateTabFields
    \/ ValidateAgain

SpecRec == InitRec /\ [][NextRec]_vars

-----------------------------------------------------------------------------
(* Properties of the stored records *)

\* an 11-character video identifier over letters, digits, "_" and "-"
IsVideoId(s) ==
    Len(s) = 11 /\ \A i \in 1..Len(s) : s[i] \in AlnumChars \cup {"_", "-"}

\* an audio identifier: absent, or 22 letters and digits
IsAudioId(s) ==
    s = NoneStr \/ (Len(s) = 22 /\ \A i \in 1..Len(s) : s[i] \in AlnumChars)

HasStringIndicator(text) ==
    \E i \in 1..(Len(text) - 1) :
        text[i] \in {"G", "D", "A", "E", "B"} /\ text[i + 1] = "|"

\* the record invariants of the data model
SatisfiesRecordInvariants(p) ==
    /\ IsVideoId(p.track.youtube_id) /\ IsVideoId(p.original.youtube_id)
    /\ IsAudioId(p.track.spotify_id) /\ IsAudioId(p.original.spotify_id)
    /\ p.sample_map.track_start_sec >= 0 /\ p.sample_map.original_start_sec >= 0
    /\ Len(p.tab.bars) >= 1
    /\ \A i \in 1..Len(p.tab.bars) : p.tab.bars[i].start_sec >= 0
    /\ \A i, j \in 1..Len(p.tab.bars) :
           i < j => /\ p.tab.bars[i].bar # p.tab.bars[j].bar
                    /\ p.tab.bars[i].start_sec < p.tab.bars[j].start_sec
    /\ Abs(p.tab.bars[1].start_sec - p.sample_map.original_start_sec) <= 10
    /\ HasStringIndicator(p.tab.tab_text)

\* C11: in every reachable state of the store every stored record satisfies
\* all record invariants of the data model (video and audio identifiers,
\* timestamps, bars, first bar within 1.0 s of original_start_sec, string
\* indicator in the tab body)
C11_StoredRecordsValid ==
    \A i \in 1..Len(data) : SatisfiesRecordInvariants(Object(heap, data[i].rec))

\* C12: a record is held immutably once stored: whatever step follows (a
\* store call, or a caller assigning to a record it got back), every slug in
\* the store stays in it and get_pair_by_slug returns for it a record of
\* the same content
C12_Step ==
    \A i \in 1..Len(data) :
        /\ InDict(data', data[i].slug)
        /\ Object(heap', get_pair_by_slug(data', data[i].slug))
               = Object(heap, data[i].rec)

C12_StoredRecordImmutable == [][C12_Step]_vars

-----------------------------------------------------------------------------
(* Properties of the validation of single records *)

\* the characters the data model allows in a tab body: letters, digits,
\* | - ~, whitespace, slashes, backslash
TabAllowList ==
    LowerChars \cup UpperChars \cup DigitChars \cup WhitespaceChars
    \cup {"|", "-", "~", "/", "\\"}

\* a markup tag: "<", then ">" somewhere after it
HasMarkupTag(text) ==
    \E i, j \in 1..Len(text) : i < j /\ text[i] = "<" /\ text[j] = ">"

UpperSeq ==
    <<"A", "B", "C", "D", "E", "F", "G", "H", "I", "J", "K", "L", "M",
      "N", "O", "P", "Q", "R", "S", "T", "U", "V", "W", "X", "Y", "Z">>
LowerSeq ==
    <<"a", "b", "c", "d", "e", "f", "g", "h", "i", "j", "k", "l", "m",
      "n", "o", "p", "q", "r", "s", "t", "u", "v", "w", "x", "y", "z">>

\* the text with its ASCII capitals in lower case
ToLower(text) ==
    [i \in 1..Len(text) |->
        IF text[i] \in UpperChars
        THEN LowerSeq[CHOOSE k \in 1..26 : UpperSeq[k] = text[i]]
        ELSE text[i]]

\* javascript:, data: or vbscript:, in any case
HasScriptScheme(text) ==
    \/ Contains(ToLower(text), <<"j", "a", "v", "a", "s", "c", "r", "i", "p", "t", ":">>)
    \/ Contains(ToLower(text), <<"d", "a", "t", "a", ":">>)
    \/ Contains(ToLower(text), <<"v", "b", "s", "c", "r", "i", "p", "t", ":">>)

\* C13: no Tab is accepted whose tab_text contains a markup tag, a
\* script-like URI scheme or a character outside the allow-list
C13_UnsafeTabTextRefused ==
    (vout.op = "Tab" /\ vout.result.ok) =>
        /\ ~HasMarkupTag(vin.raw.tab_text)
        /\ ~HasScriptScheme(vin.raw.tab_text)
        /\ ~HasCharOutside(vin.raw.tab_text, TabAllowList)

\* C14: a Track or an Original built with a youtube_id whose length is not
\* 11 fails, and the failure reported for youtube_id carries the message
\* 'YouTube ID must be exactly 11 characters'
C14_WrongLengthReportsMessage ==
    (vout.op \in {"Track", "Original"} /\ Len(vin.raw.youtube_id) # 11) =>
        /\ ~vout.result.ok
        /\ Reports(vout.result, "youtube_id", "YouTube ID must be exactly 11 characters")

\* the validation raised no error for this field
FieldAccepted(result, loc) ==
    result.ok \/ \A i \in 1..Len(result.msg) : result.msg[i].loc # loc

\* the spotify_id handed over, None when the field is left out
GivenSpotifyId == IF "spotify_id" \in DOMAIN vin.raw THEN vin.raw.spotify_id ELSE NoneStr

\* C15 as stated: a spotify_id is accepted exactly when it is absent or a
\* string of exactly 22 alphanumeric characters
C15_SpotifyIdExact ==
    vout.op \in {"Track", "Original"} =>
        (FieldAccepted(vout.result, "spotify_id") <=> IsAudioId(GivenSpotifyId))

\* C15 as amended: a spotify_id is accepted exactly when it is absent or,
\* once the whitespace around it is removed, a string of exactly 22
\* alphanumeric characters; the accepted record carries the trimmed value
C15_TrimmedSpotifyIdExact ==
    vout.op \in {"Track", "Original"} =>
        /\ FieldAccepted(vout.result, "spotify_id") <=> IsAudioId(Trimmed(GivenSpotifyId))
        /\ vout.result.ok => vout.result.value.spotify_id = Trimmed(GivenSpotifyId)

\* C15 witness: a Track was accepted whose spotify_id came with whitespace
\* around its 22 characters, and carries the 22 characters
C15_Witness ==
    /\ vout.op = "Track"
    /\ vout.result.ok
    /\ GivenSpotifyId = <<" ">> \o TestSpotifyId \o <<"\n">>
    /\ vout.result.value.spotify_id = TestSpotifyId

\* the sample_type handed over, the default when the field is left out
GivenSampleType ==
    IF "sample_type" \in DOMAIN vin.raw THEN vin.raw.sample_type ELSE "direct"

\* C16: SampleMap refuses every input in which track_start_sec or
\* original_start_sec is below 0, accepts 0 for both, and no accepted
\* SampleMap has a negative timestamp
C16_NoNegativeTimestamp ==
    vout.op = "SampleMap" =>
        /\ (vin.raw.track_start_sec < 0 \/ vin.raw.original_start_sec < 0) =>
               ~vout.result.ok
        /\ (/\ vin.raw.track_start_sec = 0
            /\ vin.raw.original_start_sec = 0
            /\ GivenSampleType \in {"direct", "interpolation", "replay"}) =>
               vout.result.ok
        /\ vout.result.ok =>
               /\ vout.result.value.track_start_sec >= 0
               /\ vout.result.value.original_start_sec >= 0

\* C16 witness: SampleMap accepted 0 for both timestamps
C16_Witness ==
    /\ vout.op = "SampleMap"
    /\ vout.result.ok
    /\ vout.result.value.track_start_sec = 0
    /\ vout.result.value.original_start_sec = 0

\* C17: SampleMap accepts sample_type exactly when it is one of direct,
\* interpolation or replay, and keeps the value given
C17_SampleTypeEnum ==
    (/\ vout.op = "SampleMap"
     /\ "sample_type" \in DOMAIN vin.raw
     /\ vin.raw.track_start_sec >= 0
     /\ vin.raw.original_start_sec >= 0) =>
        /\ vout.result.ok <=> vin.raw.sample_type \in {"direct", "interpolation", "replay"}
        /\ vout.result.ok => vout.result.value.sample_type = vin.raw.sample_type

\* C17 witness: SampleMap accepted 'replay' and kept it
C17_Witness ==
    /\ vout.op = "SampleMap"
    /\ "sample_type" \in DOMAIN vin.raw
    /\ vin.raw.sample_type = "replay"
    /\ vout.result.ok
    /\ vout.result.value.sample_type = "replay"

\* the tuning handed over, the default when the field is left out
GivenTuning == IF "tuning" \in DOMAIN vin.raw THEN vin.raw.tuning ELSE "EADG"

\* the other fields of the Tab handed over are valid
OtherTabFieldsValid ==
    /\ GivenTuning \in {"EADG", "BEADG", "DADG", "CGCF"}
    /\ Len(Trimmed(vin.raw.tab_text)) >= 10
    /\ HasStringIndicator(vin.raw.tab_text)
    /\ WellFormedBars(vin.raw.bars)

\* C18: with otherwise valid fields, Tab accepts a difficulty exactly when
\* it is an integer from 1 to 5 inclusive, and keeps it
C18_DifficultyRange ==
    (vout.op = "Tab" /\ OtherTabFieldsValid) =>
        /\ vout.result.ok <=> (1 <= vin.raw.difficulty /\ vin.raw.difficulty <= 5)
        /\ vout.result.ok => vout.result.value.difficulty = vin.raw.difficulty

\* C18 witness: a Tab of difficulty 5 was accepted
C18_Witness ==
    /\ vout.op = "Tab"
    /\ OtherTabFieldsValid
    /\ vin.raw.difficulty = 5
    /\ vout.result.ok

\* C19: for every accepted PagePayload p, validating p.model_dump() again
\* succeeds and yields a record equal to p field for field, the order of
\* the bars included
C19_ValidationIdempotent ==
    (vout.op = "PagePayload again" /\ vout.first.ok) =>
        /\ vout.result.ok
        /\ vout.result.value = vout.first.value
        /\ vout.result.value.tab.bars = vout.first.value.tab.bars

\* C19 witness: a payload with padded strings and bars out of order was
\* accepted, normalised, and validated again to the same record
C19_Witness ==
    /\ vout.op = "PagePayload again"
    /\ vout.first.ok
    /\ vout.result.ok
    /\ vout.first.value.track.title # vin.raw.track.title
    /\ vout.first.value.tab.tab_text # vin.raw.tab.tab_text
    /\ vout.first.value.tab.bars # vin.raw.tab.bars
    /\ Len(vin.raw.tab.bars) = 3
    /\ vout.result.value = vout.first.value

BlankStr(s) == \A i \in 1..Len(s) : s[i] \in WhitespaceChars

\* the fields handed to Track or Original are valid: title and artist within
\* their limits once trimmed, the year in range, the identifiers well formed
\* once trimmed
ValidTrackInput ==
    /\ 1 <= Len(Trimmed(vin.raw.title)) /\ Len(Trimmed(vin.raw.title)) <= 200
    /\ 1 <= Len(Trimmed(vin.raw.artist)) /\ Len(Trimmed(vin.raw.artist)) <= 100
    /\ 1900 <= vin.raw.year /\ vin.raw.year <= 2030
    /\ IsVideoId(Trimmed(vin.raw.youtube_id))
    /\ IsAudioId(Trimmed(GivenSpotifyId))

\* C20: every valid Track or Original input is accepted, and the record
\* carries every field unchanged but for the whitespace around the string
\* fields; the limits of title and artist apply to the trimmed value, so a
\* title or an artist of whitespace only is refused as too short
C20_TrackRoundTrip ==
    vout.op \in {"Track", "Original"} =>
        /\ ValidTrackInput =>
               /\ vout.result.ok
               /\ vout.result.value =
                      [title      |-> Trimmed(vin.raw.title),
                       artist     |-> Trimmed(vin.raw.artist),
                       year       |-> vin.raw.year,
                       youtube_id |-> Trimmed(vin.raw.youtube_id),
                       spotify_id |-> Trimmed(GivenSpotifyId)]
        /\ \A f \in {"title", "artist"} :
               BlankStr(vin.raw[f]) =>
                   /\ ~vout.result.ok
                   /\ \E i \in 1..Len(vout.result.msg) :
                          /\ vout.result.msg[i].loc = f
                          /\ vout.result.msg[i].type = "string_too_short"
        /\ (Len(Trimmed(vin.raw.title)) > 200 \/ Len(Trimmed(vin.raw.artist)) > 100) =>
               ~vout.result.ok

\* C20 witness: an Original was accepted whose title holds 200 characters
\* between two spaces, and carries the 200 characters
C20_Witness ==
    /\ vout.op = "Original"
    /\ ValidTrackInput
    /\ Len(vin.raw.title) = 202
    /\ vout.result.ok
    /\ Len(vout.result.value.title) = 200
    /\ vout.result.value.artist # vin.raw.artist

-----------------------------------------------------------------------------
(* The error paths of the endpoints, on the exception the try body raised *)

ExcTypes ==
    {"ValueError", "ValidationError", "KeyError", "TypeError", "HTTPException",
     "RuntimeError", "Exception"}

\* str(error): messages of the code and texts carrying internal detail
ExcMessages ==
    {"Slug cannot be empty", "Slug contains invalid path characters",
     "Track pair not found: juicy", "'juicy' at models.py line 384", ""}

Exceptions == [type : ExcTypes, msg : ExcMessages]

InitErr ==
    /\ data = SeedData
    /\ inserted = <<>>
    /\ last = [op |-> "init"]
    /\ debug \in BOOLEAN
    /\ pc = Idle
    /\ call = NoCall
    /\ ret = NoCall
    /\ heap = <<>>
    /\ vin \in Exceptions
    /\ vout = [op |-> "init"]

\* SecurityUtils.get_safe_error_message(e, settings.debug)
SafeErrorMessage ==
    /\ vout' = [op |-> "get_safe_error_message",
                text |-> get_safe_error_message(vin, debug)]
    /\ UNCHANGED <<data, inserted, last, debug, pc, call, ret, heap, vin>>

\* the try body of get_pair raises vin
GetPairRaises ==
    /\ vout' = [op |-> "get_pair", text |-> get_pair_except(vin, debug).msg,
                status |-> get_pair_except(vin, debug).status_code]
    /\ UNCHANGED <<data, inserted, last, debug, pc, call, ret, heap, vin>>

\* the try body of list_pairs raises vin
ListPairsRaises ==
    /\ vout' = [op |-> "list_pairs", text |-> list_pairs_except(vin, debug).msg,
                status |-> list_pairs_except(vin, debug).status_code]
    /\ UNCHANGED <<data, inserted, last, debug, pc, call, ret, heap, vin>>

NextErr ==
    \/ SafeErrorMessage
    \/ GetPairRaises
    \/ ListPairsRaises

SpecErr == InitErr /\ [][NextErr]_vars

\* the text the operation of vout gives for exception e
ErrorText(op, e, dbg) ==
    CASE op = "get_safe_error_message" -> get_safe_error_message(e, dbg)
      [] op = "get_pair"               -> get_pair_except(e, dbg).msg
      [] op = "list_pairs"             -> list_pairs_except(e, dbg).msg

\* C21: with debug off the error text of get_safe_error_message, get_pair and
\* list_pairs is the same for every exception of the same type whatever its
\* message, and is not the exception's own text; with debug on the text
\* given through get_safe_error_message is the exception's own
C21_GenericErrorText ==
    vout.op \in {"get_safe_error_message", "get_pair", "list_pairs"} =>
        /\ ~debug =>
              /\ \A m \in ExcMessages :
                    ErrorText(vout.op, [vin EXCEPT !.msg = m], FALSE) = vout.text
              /\ vout.text # vin.msg
        /\ debug => vout.text = vin.msg

\* two exceptions of one type with different messages were answered with
\* debug off: get_pair gave the fixed text of a ValueError
C21_Witness ==
    /\ vout.op = "get_pair"
    /\ ~debug
    /\ vin = [type |-> "ValueError", msg |-> "Slug contains invalid path characters"]
    /\ vout.text = "Invalid input data provided"
    /\ vout.text = get_pair_except([vin EXCEPT !.msg = "Slug cannot be empty"], FALSE).msg

-----------------------------------------------------------------------------
(* The scraper (scripts/bass_sample_scraper.py).  Its lookups are static   *)
(* tables; generate_page_data is read as Python 3.12 runs it (before 3.12  *)
(* the nested quotes of the slug's f-string are a syntax error and the     *)
(* file does not load, so that no record is produced at all).              *)

\* known_samples of search_whosampled (bass_sample_scraper.py lines 78-179)
known_samples ==
    {[artist |-> <<"2", "P", "a", "c">>,
      track  |-> <<"C", "a", "l", "i", "f", "o", "r", "n", "i", "a", " ",
                   "L", "o", "v", "e">>,
      value  |-> <<[original_track |->
                         [title      |-> <<"D", "a", "n", "c", "e", " ", "F",
                                          "l", "o", "o", "r">>,
                          artist     |-> <<"Z", "a", "p", "p">>,
                          year       |-> 1982,
                          youtube_id |-> <<"k", "Y", "P", "o", "3", "H", "C",
                                          "k", "Y", "d", "8">>,
                          spotify_id |-> NoneStr],
                     sample_type |-> "direct",
                     is_bass_sample |-> TRUE,
                     notes |-> <<"R", "o", "g", "e", "r", " ", "T", "r", "o",
                                "u", "t", "m", "a", "n", "'", "s", " ", "t",
                                "a", "l", "k", " ", "b", "o", "x", " ", "a",
                                "n", "d", " ", "Z", "a", "p", "p", "'", "s",
                                " ", "s", "i", "g", "n", "a", "t", "u", "r",
                                "e", " ", "b", "a", "s", "s", " ", "f", "u",
                                "n", "k">>,
                     track_start_sec |-> 120,
                     original_start_sec |-> 250]>>],
     [artist |-> <<"W", "u", "-", "T", "a", "n", "g", " ", "C", "l", "a",
                   "n">>,
      track  |-> <<"C", ".", "R", ".", "E", ".", "A", ".", "M", ".">>,
      value  |-> <<[original_track |->
                         [title      |-> <<"A", "s", " ", "L", "o", "n", "g",
                                          " ", "A", "s", " ", "I", "'", "v",
                                          "e", " ", "G", "o", "t", " ", "Y",
                                          "o", "u">>,
                          artist     |-> <<"T", "h", "e", " ", "C", "h", "a",
                                          "r", "m", "e", "l", "s">>,
                          year       |-> 1967,
                          youtube_id |-> <<"7", "4", "X", "5", "G", "E", "F",
                                          "8", "q", "z", "M">>,
                          spotify_id |-> NoneStr],
                     sample_type |-> "direct",
                     is_bass_sample |-> TRUE,
                     notes |-> <<"C", "l", "a", "s", "s", "i", "c", " ", "s",
                                "o", "u", "l", " ", "b", "a", "s", "s", " ",
                                "l", "i", "n", "e", " ", "f", "r", "o", "m",
                                " ", "T", "h", "e", " ", "C", "h", "a", "r",
                                "m", "e", "l", "s", "'", " ", "d", "e", "e",
                                "p", " ", "c", "u", "t">>,
                     track_start_sec |-> 80,
                     original_start_sec |-> 150]>>],
     [artist |-> <<"2", "P", "a", "c">>,
      track  |-> <<"I", " ", "G", "e", "t", " ", "A", "r", "o", "u", "n",
                   "d">>,
      value  |-> <<[original_track |->
                         [title      |-> <<"C", "o", "m", "p", "u", "t", "e",
                                          "r", " ", "L", "o", "v", "e">>,
                          artist     |-> <<"Z", "a", "p", "p", " ", "&", " ",
                                          "R", "o", "g", "e", "r">>,
                          year       |-> 1985,
                          youtube_id |-> <<"i", "q", "A", "j", "3", "U", "f",
                                          "E", "q", "p", "A">>,
                          spotify_id |-> NoneStr],
                     sample_type |-> "direct",
                     is_bass_sample |-> TRUE,
                     notes |-> <<"Z", "a", "p", "p", "'", "s", " ", "r", "o",
                                "b", "o", "t", "i", "c", " ", "f", "u", "n",
                                "k", " ", "b", "a", "s", "s", " ", "d", "r",
                                "i", "v", "e", "s", " ", "t", "h", "e", " ",
                                "d", "i", "g", "i", "t", "a", "l", " ", "s",
                                "o", "u", "l", " ", "m", "o", "v", "e", "m",
                                "e", "n", "t">>,
                     track_start_sec |-> 50,
                     original_start_sec |-> 300]>>],
     [artist |-> <<"W", "u", "-", "T", "a", "n", "g", " ", "C", "l", "a",
                   "n">>,
      track  |-> <<"P", "r", "o", "t", "e", "c", "t", " ", "Y", "a", " ",
                   "N", "e", "c", "k">>,
      value  |-> <<[original_track |->
                         [title      |-> <<"H", "o", "l", "y", " ", "T", "h",
                                          "u", "r", "s", "d", "a", "y">>,
                          artist     |-> <<"D", "a", "v", "i", "d", " ", "A",
                                          "x", "e", "l", "r", "o", "d">>,
                          year       |-> 1968,
                          youtube_id |-> <<"b", "G", "A", "B", "1", "1", "Z",
                                          "i", "P", "e", "w">>,
                          spotify_id |-> NoneStr],
                     sample_type |-> "interpolation",
                     is_bass_sample |-> TRUE,
                     notes |-> <<"P", "s", "y", "c", "h", "e", "d", "e", "l",
                                "i", "c", " ", "o", "r", "c", "h", "e", "s",
                                "t", "r", "a", "l", " ", "b", "a", "s", "s",
                                " ", "t", "r", "a", "n", "s", "f", "o", "r",
                                "m", "e", "d", " ", "i", "n", "t", "o", " ",
                                "r", "a", "w", " ", "h", "i", "p", "-", "h",
                                "o", "p">>,
                     track_start_sec |-> 0,
                     original_start_sec |-> 450]>>],
     [artist |-> <<"N", "e", "l", "l", "y">>,
      track  |-> <<"H", "o", "t", " ", "i", "n", " ", "H", "e", "r", "r",
                   "e">>,
      value  |-> <<[original_track |->
                         [title      |-> <<"B", "u", "s", "t", "i", "n", "'",
                                          " ", "L", "o", "o", "s", "e">>,
                          artist     |-> <<"C", "h", "u", "c", "k", " ", "B",
                                          "r", "o", "w", "n">>,
                          year       |-> 1978,
                          youtube_id |-> <<"s", "j", "_", "m", "d", "j", "M",
                                          "X", "H", "q", "E">>,
                          spotify_id |-> NoneStr],
                     sample_type |-> "direct",
                     is_bass_sample |-> TRUE,
                     notes |-> <<"G", "o", "-", "g", "o", " ", "f", "u", "n",
                                "k", " ", "b", "a", "s", "s", " ", "f", "r",
                                "o", "m", " ", "C", "h", "u", "c", "k", " ",
                                "B", "r", "o", "w", "n", "'", "s", " ", "D",
                                "C", " ", "c", "l", "a", "s", "s", "i", "c">>,
                     track_start_sec |-> 150,
                     original_start_sec |-> 200]>>],
     [artist |-> <<"N", "a", "s">>,
      track  |-> <<"N", ".", "Y", ".", " ", "S", "t", "a", "t", "e", " ",
                   "o", "f", " ", "M", "i", "n", "d">>,
      value  |-> <<[original_track |->
                         [title      |-> <<"M", "i", "n", "d", " ", "R", "a",
                                          "i", "n">>,
                          artist     |-> <<"J", "o", "e", " ", "C", "h", "a",
                                          "m", "b", "e", "r", "s">>,
                          year       |-> 1975,
                          youtube_id |-> <<"x", "L", "m", "4", "T", "c", "J",
                                          "4", "r", "g", "g">>,
                          spotify_id |-> NoneStr],
                     sample_type |-> "direct",
                     is_bass_sample |-> TRUE,
                     notes |-> <<"J", "a", "z", "z", "-", "f", "u", "n", "k",
                                " ", "b", "a", "s", "s", " ", "l", "i", "n",
                                "e", " ", "f", "r", "o", "m", " ", "J", "o",
                                "e", " ", "C", "h", "a", "m", "b", "e", "r",
                                "s", "'", " ", "M", "i", "n", "d", " ", "R",
                                "a", "i", "n">>,
                     track_start_sec |-> 0,
                     original_start_sec |-> 450]>>],
     [artist |-> <<"I", "c", "e", " ", "C", "u", "b", "e">>,
      track  |-> <<"I", "t", " ", "W", "a", "s", " ", "a", " ", "G", "o",
                   "o", "d", " ", "D", "a", "y">>,
      value  |-> <<[original_track |->
                         [title      |-> <<"F", "o", "o", "t", "s", "t", "e",
                                          "p", "s", " ", "i", "n", " ", "t",
                                          "h", "e", " ", "D", "a", "r", "k">>,
                          artist     |-> <<"T", "h", "e", " ", "I", "s", "l",
                                          "e", "y", " ", "B", "r", "o", "t",
                                          "h", "e", "r", "s">>,
                          year       |-> 1977,
                          youtube_id |-> <<"e", "t", "w", "I", "u", "8", "-",
                                          "J", "5", "y", "o">>,
                          spotify_id |-> NoneStr],
                     sample_type |-> "direct",
                     is_bass_sample |-> TRUE,
                     notes |-> <<"C", "l", "a", "s", "s", "i", "c", " ", "R",
                                "&", "B", " ", "b", "a", "s", "s", " ", "l",
                                "i", "n", "e", " ", "f", "r", "o", "m", " ",
                                "t", "h", "e", " ", "I", "s", "l", "e", "y",
                                " ", "B", "r", "o", "t", "h", "e", "r", "s">>,
                     track_start_sec |-> 120,
                     original_start_sec |-> 0]>>],
     [artist |-> <<"W", "a", "r", "r", "e", "n", " ", "G">>,
      track  |-> <<"R", "e", "g", "u", "l", "a", "t", "e">>,
      value  |-> <<[original_track |->
                         [title      |-> <<"I", " ", "K", "e", "e", "p", " ",
                                          "F", "o", "r", "g", "e", "t", "t",
                                          "i", "n", "'">>,
                          artist     |-> <<"M", "i", "c", "h", "a", "e", "l",
                                          " ", "M", "c", "D", "o", "n", "a",
                                          "l", "d">>,
                          year       |-> 1982,
                          youtube_id |-> <<"q", "i", "i", "y", "q", "2", "x",
                                          "r", "S", "I", "0">>,
                          spotify_id |-> NoneStr],
                     sample_type |-> "interpolation",
                     is_bass_sample |-> TRUE,
                     notes |-> <<"Y", "a", "c", "h", "t", " ", "r", "o", "c",
                                "k", " ", "b", "a", "s", "s", " ", "t", "r",
                                "a", "n", "s", "f", "o", "r", "m", "e", "d",
                                " ", "i", "n", "t", "o", " ", "G", "-", "f",
                                "u", "n", "k">>,
                     track_start_sec |-> 80,
                     original_start_sec |-> 150]>>],
     [artist |-> <<"H", "o", "u", "s", "e", " ", "o", "f", " ", "P", "a",
                   "i", "n">>,
      track  |-> <<"J", "u", "m", "p", " ", "A", "r", "o", "u", "n", "d">>,
      value  |-> <<[original_track |->
                         [title      |-> <<"T", "h", "e", " ", "H", "a", "r",
                                          "l", "e", "m", " ", "S", "h", "u",
                                          "f", "f", "l", "e">>,
                          artist     |-> <<"B", "o", "b", " ", "&", " ", "E",
                                          "a", "r", "l">>,
                          year       |-> 1963,
                          youtube_id |-> <<"w", "B", "i", "O", "V", "O", "B",
                                          "Z", "e", "a", "E">>,
                          spotify_id |-> NoneStr],
                     sample_type |-> "direct",
                     is_bass_sample |-> TRUE,
                     notes |-> <<"C", "l", "a", "s", "s", "i", "c", " ", "R",
                                "&", "B", " ", "b", "a", "s", "s", " ", "s",
                                "h", "u", "f", "f", "l", "e", " ", "p", "a",
                                "t", "t", "e", "r", "n">>,
                     track_start_sec |-> 50,
                     original_start_sec |-> 100]>>],
     [artist |-> <<"G", "e", "t", "o", " ", "B", "o", "y", "s">>,
      track  |-> <<"M", "i", "n", "d", " ", "P", "l", "a", "y", "i", "n",
                   "g", " ", "T", "r", "i", "c", "k", "s", " ", "o", "n",
                   " ", "M", "e">>,
      value  |-> <<[original_track |->
                         [title      |-> <<"H", "u", "n", "g", " ", "U", "p",
                                          " ", "o", "n", " ", "M", "y", " ",
                                          "B", "a", "b", "y">>,
                          artist     |-> <<"I", "s", "a", "a", "c", " ", "H",
                                          "a", "y", "e", "s">>,
                          year       |-> 1974,
                          youtube_id |-> <<"n", "E", "j", "L", "F", "p", "U",
                                          "2", "p", "J", "4">>,
                          spotify_id |-> NoneStr],
                     sample_type |-> "direct",
                     is_bass_sample |-> TRUE,
                     notes |-> <<"I", "s", "a", "a", "c", " ", "H", "a", "y",
                                "e", "s", "'", " ", "o", "r", "c", "h", "e",
                                "s", "t", "r", "a", "t", "e", "d", " ", "s",
                                "o", "u", "l", " ", "b", "a", "s", "s">>,
                     track_start_sec |-> 200,
                     original_start_sec |-> 300]>>]}

\* known_tabs of _search_ultimate_guitar_tabs (bass_sample_scraper.py lines 208-329)
known_tabs ==
    {[artist |-> <<"Z", "a", "p", "p">>,
      track  |-> <<"D", "a", "n", "c", "e", " ", "F", "l", "o", "o", "r">>,
      value  |-> [tuning     |-> "EADG",
                  difficulty |-> 3,
                  tab_text   |->
                      <<"#", " ", "Z", "a", "p", "p", "'", "s", " ", "s",
                        "i", "g", "n", "a", "t", "u", "r", "e", " ", "t",
                        "a", "l", "k", "-", "b", "o", "x", " ", "f", "u",
                        "n", "k", " ", "b", "a", "s", "s", ":", "\n", "G",
                        "|", "U+2014", "U+2014", "U+2014", "U+2014",
                        "U+2014", "U+2014", "U+2014", "U+2014", "U+2014",
                        "U+2014", "U+2014", "U+2014", "U+2014", "U+2014",
                        "U+2014", "U+2014", "U+2014", "U+2014", "U+2014",
                        "U+2014", "U+2014", "U+2014", "U+2014", "U+2014",
                        "U+2014", "U+2014", "U+2014", "U+2014", "U+2014",
                        "U+2014", "U+2014", "U+2014", "|", "\n", "D", "|",
                        "U+2014", "U+2014", "U+2014", "U+2014", "U+2014",
                        "U+2014", "U+2014", "U+2014", "U+2014", "U+2014",
                        "U+2014", "U+2014", "U+2014", "U+2014", "U+2014",
                        "U+2014", "U+2014", "U+2014", "U+2014", "U+2014",
                        "U+2014", "U+2014", "U+2014", "U+2014", "U+2014",
                        "U+2014", "U+2014", "U+2014", "U+2014", "U+2014",
                        "U+2014", "U+2014", "|", "\n", "A", "|", "U+2014",
                        "U+2014", "U+2014", "U+2014", "U+2014", "U+2014",
                        "U+2014", "U+2014", "U+2014", "U+2014", "U+2014",
                        "U+2014", "U+2014", "U+2014", "U+2014", "U+2014",
                        "U+2014", "U+2014", "U+2014", "U+2014", "U+2014",
                        "U+2014", "7", "U+2014", "5", "U+2014", "3",
                        "U+2014", "U+2014", "U+2014", "U+2014", "U+2014",
                        "|", "\n", "E", "|", "U+2014", "5", "U+2014", "5",
                        "U+2014", "5", "U+2014", "5", "U+2014", "5",
                        "U+2014", "5", "U+2014", "5", "U+2014", "5",
                        "U+2014", "5", "U+2014", "5", "U+2014", "U+2014",
                        "U+2014", "U+2014", "U+2014", "U+2014", "U+2014",
                        "U+2014", "U+2014", "5", "U+2014", "3", "U+2014",
                        "|">>,
                  bars       |-> <<Bar(1, 0), Bar(2, 40)>>]],
     [artist |-> <<"T", "h", "e", " ", "C", "h", "a", "r", "m", "e", "l",
                   "s">>,
      track  |-> <<"A", "s", " ", "L", "o", "n", "g", " ", "A", "s", " ",
                   "I", "'", "v", "e", " ", "G", "o", "t", " ", "Y", "o",
                   "u">>,
      value  |-> [tuning     |-> "EADG",
                  difficulty |-> 2,
                  tab_text   |->
                      <<"#", " ", "C", "l", "a", "s", "s", "i", "c", " ",
                        "6", "0", "s", " ", "s", "o", "u", "l", " ", "b",
                        "a", "s", "s", " ", "g", "r", "o", "o", "v", "e",
                        ":", "\n", "G", "|", "U+2014", "U+2014", "U+2014",
                        "U+2014", "U+2014", "U+2014", "U+2014", "U+2014",
                        "U+2014", "U+2014", "U+2014", "U+2014", "U+2014",
                        "U+2014", "U+2014", "U+2014", "U+2014", "U+2014",
                        "U+2014", "U+2014", "U+2014", "U+2014", "U+2014",
                        "U+2014", "U+2014", "U+2014", "U+2014", "U+2014",
                        "U+2014", "U+2014", "U+2014", "U+2014", "|", "\n",
                        "D", "|", "U+2014", "U+2014", "U+2014", "U+2014",
                        "U+2014", "U+2014", "U+2014", "U+2014", "U+2014",
                        "U+2014", "U+2014", "U+2014", "U+2014", "U+2014",
                        "U+2014", "U+2014", "U+2014", "U+2014", "U+2014",
                        "U+2014", "U+2014", "U+2014", "U+2014", "U+2014",
                        "U+2014", "U+2014", "U+2014", "U+2014", "U+2014",
                        "U+2014", "U+2014", "U+2014", "|", "\n", "A", "|",
                        "U+2014", "U+2014", "U+2014", "U+2014", "U+2014",
                        "U+2014", "U+2014", "U+2014", "U+2014", "U+2014",
                        "U+2014", "U+2014", "U+2014", "U+2014", "U+2014",
                        "U+2014", "U+2014", "U+2014", "U+2014", "U+2014",
                        "U+2014", "U+2014", "U+2014", "U+2014", "U+2014",
                        "U+2014", "U+2014", "U+2014", "U+2014", "U+2014",
                        "U+2014", "U+2014", "|", "\n", "E", "|", "U+2014",
                        "3", "U+2014", "U+2014", "U+2014", "U+2014",
                        "U+2014", "U+2014", "U+2014", "U+2014", "3",
                        "U+2014", "U+2014", "U+2014", "U+2014", "U+2014",
                        "U+2014", "U+2014", "U+2014", "3", "U+2014",
                        "U+2014", "U+2014", "U+2014", "U+2014", "U+2014",
                        "U+2014", "U+2014", "3", "U+2014", "U+2014",
                        "U+2014", "U+2014", "|">>,
                  bars       |-> <<Bar(1, 0), Bar(2, 40)>>]],
     [artist |-> <<"Z", "a", "p", "p", " ", "&", " ", "R", "o", "g", "e",
                   "r">>,
      track  |-> <<"C", "o", "m", "p", "u", "t", "e", "r", " ", "L", "o",
                   "v", "e">>,
      value  |-> [tuning     |-> "EADG",
                  difficulty |-> 4,
                  tab_text   |->
                      <<"#", " ", "D", "i", "g", "i", "t", "a", "l", " ",
                        "f", "u", "n", "k", " ", "b", "a", "s", "s", " ",
                        "w", "i", "t", "h", " ", "s", "y", "n", "t", "h",
                        " ", "b", "a", "s", "s", " ", "e", "l", "e", "m",
                        "e", "n", "t", "s", ":", "\n", "G", "|", "U+2014",
                        "U+2014", "U+2014", "U+2014", "U+2014", "U+2014",
                        "U+2014", "U+2014", "U+2014", "U+2014", "U+2014",
                        "U+2014", "U+2014", "U+2014", "U+2014", "U+2014",
                        "U+2014", "U+2014", "U+2014", "U+2014", "U+2014",
                        "U+2014", "U+2014", "U+2014", "U+2014", "U+2014",
                        "U+2014", "U+2014", "U+2014", "U+2014", "U+2014",
                        "U+2014", "|", "\n", "D", "|", "U+2014", "U+2014",
                        "U+2014", "U+2014", "U+2014", "U+2014", "U+2014",
                        "U+2014", "U+2014", "U+2014", "U+2014", "U+2014",
                        "U+2014", "U+2014", "U+2014", "U+2014", "U+2014",
                        "U+2014", "U+2014", "U+2014", "U+2014", "U+2014",
                        "U+2014", "U+2014", "U+2014", "U+2014", "U+2014",
                        "U+2014", "U+2014", "U+2014", "U+2014", "U+2014",
                        "|", "\n", "A", "|", "U+2014", "U+2014", "U+2014",
                        "U+2014", "U+2014", "U+2014", "U+2014", "U+2014",
                        "U+2014", "U+2014", "U+2014", "U+2014", "U+2014",
                        "U+2014", "U+2014", "U+2014", "U+2014", "U+2014",
                        "U+2014", "U+2014", "U+2014", "U+2014", "U+2014",
                        "U+2014", "U+2014", "5", "U+2014", "7", "U+2014",
                        "5", "U+2014", "3", "|", "\n", "E", "|", "U+2014",
                        "3", "U+2014", "3", "U+2014", "0", "U+2014", "3",
                        "U+2014", "3", "U+2014", "0", "U+2014", "3",
                        "U+2014", "3", "U+2014", "0", "U+2014", "3",
                        "U+2014", "3", "U+2014", "0", "U+2014", "U+2014",
                        "U+2014", "U+2014", "U+2014", "U+2014", "U+2014",
                        "U+2014", "U+2014", "|">>,
                  bars       |-> <<Bar(1, 0), Bar(2, 25)>>]],
     [artist |-> <<"D", "a", "v", "i", "d", " ", "A", "x", "e", "l", "r",
                   "o", "d">>,
      track  |-> <<"H", "o", "l", "y", " ", "T", "h", "u", "r", "s", "d",
                   "a", "y">>,
      value  |-> [tuning     |-> "EADG",
                  difficulty |-> 3,
                  tab_text   |->
                      <<"#", " ", "O", "r", "c", "h", "e", "s", "t", "r",
                        "a", "l", " ", "b", "a", "s", "s", " ", "w", "i",
                        "t", "h", " ", "p", "s", "y", "c", "h", "e", "d",
                        "e", "l", "i", "c", " ", "e", "d", "g", "e", ":",
                        "\n", "G", "|", "U+2014", "U+2014", "U+2014",
                        "U+2014", "U+2014", "U+2014", "U+2014", "U+2014",
                        "U+2014", "U+2014", "U+2014", "U+2014", "U+2014",
                        "U+2014", "U+2014", "U+2014", "U+2014", "U+2014",
                        "U+2014", "U+2014", "U+2014", "U+2014", "U+2014",
                        "U+2014", "U+2014", "U+2014", "U+2014", "U+2014",
                        "U+2014", "U+2014", "U+2014", "U+2014", "|", "\n",
                        "D", "|", "U+2014", "U+2014", "U+2014", "U+2014",
                        "U+2014", "U+2014", "U+2014", "U+2014", "U+2014",
                        "U+2014", "U+2014", "U+2014", "U+2014", "U+2014",
                        "U+2014", "U+2014", "U+2014", "U+2014", "U+2014",
                        "U+2014", "U+2014", "U+2014", "U+2014", "U+2014",
                        "U+2014", "U+2014", "U+2014", "U+2014", "U+2014",
                        "U+2014", "U+2014", "U+2014", "|", "\n", "A", "|",
                        "U+2014", "U+2014", "U+2014", "U+2014", "U+2014",
                        "U+2014", "U+2014", "U+2014", "U+2014", "U+2014",
                        "U+2014", "U+2014", "U+2014", "U+2014", "U+2014",
                        "U+2014", "3", "U+2014", "5", "U+2014", "3",
                        "U+2014", "1", "U+2014", "U+2014", "U+2014",
                        "U+2014", "U+2014", "U+2014", "U+2014", "U+2014",
                        "U+2014", "|", "\n", "E", "|", "U+2014", "1",
                        "U+2014", "U+2014", "U+2014", "U+2014", "U+2014",
                        "U+2014", "U+2014", "U+2014", "1", "U+2014",
                        "U+2014", "U+2014", "U+2014", "U+2014", "U+2014",
                        "U+2014", "U+2014", "U+2014", "U+2014", "U+2014",
                        "U+2014", "U+2014", "U+2014", "1", "U+2014", "3",
                        "U+2014", "1", "U+2014", "0", "|">>,
                  bars       |-> <<Bar(1, 0), Bar(2, 60)>>]],
     [artist |-> <<"C", "h", "u", "c", "k", " ", "B", "r", "o", "w", "n">>,
      track  |-> <<"B", "u", "s", "t", "i", "n", "'", " ", "L", "o", "o",
                   "s", "e">>,
      value  |-> [tuning     |-> "EADG",
                  difficulty |-> 3,
                  tab_text   |->
                      <<"#", " ", "G", "o", "-", "g", "o", " ", "f", "u",
                        "n", "k", " ", "b", "a", "s", "s", " ", "w", "i",
                        "t", "h", " ", "p", "o", "c", "k", "e", "t", " ",
                        "g", "r", "o", "o", "v", "e", ":", "\n", "G", "|",
                        "U+2014", "U+2014", "U+2014", "U+2014", "U+2014",
                        "U+2014", "U+2014", "U+2014", "U+2014", "U+2014",
                        "U+2014", "U+2014", "U+2014", "U+2014", "U+2014",
                        "U+2014", "U+2014", "U+2014", "U+2014", "U+2014",
                        "U+2014", "U+2014", "U+2014", "U+2014", "U+2014",
                        "U+2014", "U+2014", "U+2014", "U+2014", "U+2014",
                        "U+2014", "U+2014", "|", "\n", "D", "|", "U+2014",
                        "U+2014", "U+2014", "U+2014", "U+2014", "U+2014",
                        "U+2014", "U+2014", "U+2014", "U+2014", "U+2014",
                        "U+2014", "U+2014", "U+2014", "U+2014", "U+2014",
                        "U+2014", "U+2014", "U+2014", "U+2014", "U+2014",
                        "U+2014", "U+2014", "U+2014", "U+2014", "U+2014",
                        "U+2014", "U+2014", "U+2014", "U+2014", "U+2014",
                        "U+2014", "|", "\n", "A", "|", "U+2014", "7",
                        "U+2014", "7", "U+2014", "5", "U+2014", "U+2014",
                        "U+2014", "U+2014", "U+2014", "U+2014", "7",
                        "U+2014", "7", "U+2014", "5", "U+2014", "U+2014",
                        "U+2014", "U+2014", "U+2014", "U+2014", "U+2014",
                        "U+2014", "U+2014", "U+2014", "U+2014", "U+2014",
                        "U+2014", "U+2014", "U+2014", "|", "\n", "E", "|",
                        "U+2014", "U+2014", "U+2014", "U+2014", "U+2014",
                        "U+2014", "U+2014", "7", "U+2014", "5", "U+2014",
                        "U+2014", "U+2014", "U+2014", "U+2014", "U+2014",
                        "U+2014", "7", "U+2014", "5", "U+2014", "3",
                        "U+2014", "0", "U+2014", "3", "U+2014", "5",
                        "U+2014", "U+2014", "U+2014", "U+2014", "|">>,
                  bars       |-> <<Bar(1, 0), Bar(2, 40)>>]],
     [artist |-> <<"J", "o", "e", " ", "C", "h", "a", "m", "b", "e", "r",
                   "s">>,
      track  |-> <<"M", "i", "n", "d", " ", "R", "a", "i", "n">>,
      value  |-> [tuning     |-> "EADG",
                  difficulty |-> 4,
                  tab_text   |->
                      <<"#", " ", "J", "a", "z", "z", "-", "f", "u", "n",
                        "k", " ", "b", "a", "s", "s", " ", "w", "i", "t",
                        "h", " ", "m", "o", "d", "a", "l", " ", "h", "a",
                        "r", "m", "o", "n", "y", ":", "\n", "G", "|",
                        "U+2014", "U+2014", "U+2014", "U+2014", "U+2014",
                        "U+2014", "U+2014", "U+2014", "U+2014", "U+2014",
                        "U+2014", "U+2014", "U+2014", "U+2014", "U+2014",
                        "U+2014", "U+2014", "U+2014", "U+2014", "U+2014",
                        "U+2014", "U+2014", "U+2014", "U+2014", "U+2014",
                        "U+2014", "U+2014", "U+2014", "U+2014", "U+2014",
                        "U+2014", "U+2014", "|", "\n", "D", "|", "U+2014",
                        "U+2014", "U+2014", "U+2014", "U+2014", "U+2014",
                        "U+2014", "U+2014", "U+2014", "U+2014", "U+2014",
                        "U+2014", "U+2014", "U+2014", "2", "U+2014",
                        "U+2014", "U+2014", "U+2014", "U+2014", "U+2014",
                        "U+2014", "U+2014", "U+2014", "U+2014", "U+2014",
                        "U+2014", "U+2014", "U+2014", "2", "U+2014", "|",
                        "\n", "A", "|", "U+2014", "2", "U+2014", "4",
                        "U+2014", "2", "U+2014", "0", "U+2014", "U+2014",
                        "U+2014", "U+2014", "U+2014", "U+2014", "U+2014",
                        "U+2014", "U+2014", "U+2014", "2", "U+2014", "4",
                        "U+2014", "2", "U+2014", "0", "U+2014", "U+2014",
                        "U+2014", "U+2014", "U+2014", "U+2014", "U+2014",
                        "|", "\n", "E", "|", "U+2014", "U+2014", "U+2014",
                        "U+2014", "U+2014", "U+2014", "U+2014", "U+2014",
                        "U+2014", "2", "U+2014", "4", "U+2014", "U+2014",
                        "U+2014", "U+2014", "U+2014", "U+2014", "U+2014",
                        "U+2014", "U+2014", "U+2014", "U+2014", "U+2014",
                        "U+2014", "2", "U+2014", "4", "U+2014", "0",
                        "U+2014", "|">>,
                  bars       |-> <<Bar(1, 0), Bar(2, 35)>>]],
     [artist |-> <<"T", "h", "e", " ", "I", "s", "l", "e", "y", " ", "B",
                   "r", "o", "t", "h", "e", "r", "s">>,
      track  |-> <<"F", "o", "o", "t", "s", "t", "e", "p", "s", " ", "i",
                   "n", " ", "t", "h", "e", " ", "D", "a", "r", "k">>,
      value  |-> [tuning     |-> "EADG",
                  difficulty |-> 2,
                  tab_text   |->
                      <<"#", " ", "C", "l", "a", "s", "s", "i", "c", " ",
                        "R", "&", "B", " ", "b", "a", "s", "s", " ", "l",
                        "i", "n", "e", ":", "\n", "G", "|", "U+2014",
                        "U+2014", "U+2014", "U+2014", "U+2014", "U+2014",
                        "U+2014", "U+2014", "U+2014", "U+2014", "U+2014",
                        "U+2014", "U+2014", "U+2014", "U+2014", "U+2014",
                        "U+2014", "U+2014", "U+2014", "U+2014", "U+2014",
                        "U+2014", "U+2014", "U+2014", "U+2014", "U+2014",
                        "U+2014", "U+2014", "U+2014", "U+2014", "U+2014",
                        "U+2014", "|", "\n", "D", "|", "U+2014", "U+2014",
                        "U+2014", "U+2014", "U+2014", "U+2014", "U+2014",
                        "U+2014", "U+2014", "U+2014", "U+2014", "U+2014",
                        "U+2014", "U+2014", "U+2014", "U+2014", "U+2014",
                        "U+2014", "U+2014", "U+2014", "U+2014", "U+2014",
                        "U+2014", "U+2014", "U+2014", "U+2014", "U+2014",
                        "U+2014", "U+2014", "U+2014", "U+2014", "U+2014",
                        "|", "\n", "A", "|", "U+2014", "U+2014", "U+2014",
                        "U+2014", "U+2014", "U+2014", "U+2014", "U+2014",
                        "U+2014", "U+2014", "U+2014", "U+2014", "U+2014",
                        "U+2014", "U+2014", "U+2014", "U+2014", "U+2014",
                        "U+2014", "U+2014", "U+2014", "U+2014", "3",
                        "U+2014", "5", "U+2014", "3", "U+2014", "1",
                        "U+2014", "U+2014", "|", "\n", "E", "|", "U+2014",
                        "1", "U+2014", "1", "U+2014", "1", "U+2014", "1",
                        "U+2014", "3", "U+2014", "1", "U+2014", "0",
                        "U+2014", "U+2014", "U+2014", "U+2014", "U+2014",
                        "U+2014", "U+2014", "U+2014", "U+2014", "U+2014",
                        "U+2014", "U+2014", "U+2014", "U+2014", "U+2014",
                        "U+2014", "U+2014", "3", "|">>,
                  bars       |-> <<Bar(1, 0), Bar(2, 45)>>]],
     [artist |-> <<"M", "i", "c", "h", "a", "e", "l", " ", "M", "c", "D",
                   "o", "n", "a", "l", "d">>,
      track  |-> <<"I", " ", "K", "e", "e", "p", " ", "F", "o", "r", "g",
                   "e", "t", "t", "i", "n", "'">>,
      value  |-> [tuning     |-> "EADG",
                  difficulty |-> 3,
                  tab_text   |->
                      <<"#", " ", "Y", "a", "c", "h", "t", " ", "r", "o",
                        "c", "k", " ", "s", "m", "o", "o", "t", "h", " ",
                        "b", "a", "s", "s", ":", "\n", "G", "|", "U+2014",
                        "U+2014", "U+2014", "U+2014", "U+2014", "U+2014",
                        "U+2014", "U+2014", "U+2014", "U+2014", "U+2014",
                        "U+2014", "U+2014", "U+2014", "U+2014", "U+2014",
                        "U+2014", "U+2014", "U+2014", "U+2014", "U+2014",
                        "U+2014", "U+2014", "U+2014", "U+2014", "U+2014",
                        "U+2014", "U+2014", "U+2014", "U+2014", "U+2014",
                        "U+2014", "|", "\n", "D", "|", "U+2014", "U+2014",
                        "U+2014", "U+2014", "U+2014", "U+2014", "U+2014",
                        "U+2014", "U+2014", "U+2014", "U+2014", "U+2014",
                        "U+2014", "U+2014", "U+2014", "U+2014", "U+2014",
                        "U+2014", "U+2014", "U+2014", "U+2014", "U+2014",
                        "U+2014", "U+2014", "U+2014", "U+2014", "U+2014",
                        "U+2014", "U+2014", "U+2014", "U+2014", "U+2014",
                        "|", "\n", "A", "|", "U+2014", "U+2014", "U+2014",
                        "U+2014", "U+2014", "U+2014", "U+2014", "U+2014",
                        "U+2014", "2", "U+2014", "4", "U+2014", "2",
                        "U+2014", "0", "U+2014", "U+2014", "U+2014",
                        "U+2014", "U+2014", "U+2014", "U+2014", "U+2014",
                        "U+2014", "U+2014", "U+2014", "U+2014", "U+2014",
                        "U+2014", "U+2014", "|", "\n", "E", "|", "U+2014",
                        "2", "U+2014", "2", "U+2014", "4", "U+2014", "2",
                        "U+2014", "U+2014", "U+2014", "U+2014", "U+2014",
                        "U+2014", "U+2014", "U+2014", "U+2014", "2",
                        "U+2014", "0", "U+2014", "2", "U+2014", "4",
                        "U+2014", "2", "U+2014", "0", "U+2014", "U+2014",
                        "U+2014", "U+2014", "|">>,
                  bars       |-> <<Bar(1, 0), Bar(2, 30)>>]],
     [artist |-> <<"B", "o", "b", " ", "&", " ", "E", "a", "r", "l">>,
      track  |-> <<"T", "h", "e", " ", "H", "a", "r", "l", "e", "m", " ",
                   "S", "h", "u", "f", "f", "l", "e">>,
      value  |-> [tuning     |-> "EADG",
                  difficulty |-> 2,
                  tab_text   |->
                      <<"#", " ", "C", "l", "a", "s", "s", "i", "c", " ",
                        "s", "h", "u", "f", "f", "l", "e", " ", "b", "a",
                        "s", "s", " ", "p", "a", "t", "t", "e", "r", "n",
                        ":", "\n", "G", "|", "U+2014", "U+2014", "U+2014",
                        "U+2014", "U+2014", "U+2014", "U+2014", "U+2014",
                        "U+2014", "U+2014", "U+2014", "U+2014", "U+2014",
                        "U+2014", "U+2014", "U+2014", "U+2014", "U+2014",
                        "U+2014", "U+2014", "U+2014", "U+2014", "U+2014",
                        "U+2014", "U+2014", "U+2014", "U+2014", "U+2014",
                        "U+2014", "U+2014", "U+2014", "U+2014", "|", "\n",
                        "D", "|", "U+2014", "U+2014", "U+2014", "U+2014",
                        "U+2014", "U+2014", "U+2014", "U+2014", "U+2014",
                        "U+2014", "U+2014", "U+2014", "U+2014", "U+2014",
                        "U+2014", "U+2014", "U+2014", "U+2014", "U+2014",
                        "U+2014", "U+2014", "U+2014", "U+2014", "U+2014",
                        "U+2014", "U+2014", "U+2014", "U+2014", "U+2014",
                        "U+2014", "U+2014", "U+2014", "|", "\n", "A", "|",
                        "U+2014", "U+2014", "U+2014", "U+2014", "U+2014",
                        "U+2014", "U+2014", "U+2014", "U+2014", "U+2014",
                        "U+2014", "U+2014", "U+2014", "U+2014", "U+2014",
                        "U+2014", "U+2014", "U+2014", "U+2014", "U+2014",
                        "U+2014", "U+2014", "U+2014", "U+2014", "U+2014",
                        "U+2014", "U+2014", "U+2014", "U+2014", "U+2014",
                        "U+2014", "U+2014", "|", "\n", "E", "|", "U+2014",
                        "1", "U+2014", "1", "U+2014", "3", "U+2014", "1",
                        "U+2014", "3", "U+2014", "1", "U+2014", "U+2014",
                        "U+2014", "U+2014", "U+2014", "1", "U+2014", "1",
                        "U+2014", "3", "U+2014", "1", "U+2014", "3",
                        "U+2014", "1", "U+2014", "U+2014", "U+2014",
                        "U+2014", "|">>,
                  bars       |-> <<Bar(1, 0), Bar(2, 40)>>]],
     [artist |-> <<"I", "s", "a", "a", "c", " ", "H", "a", "y", "e", "s">>,
      track  |-> <<"H", "u", "n", "g", " ", "U", "p", " ", "o", "n", " ",
                   "M", "y", " ", "B", "a", "b", "y">>,
      value  |-> [tuning     |-> "EADG",
                  difficulty |-> 3,
                  tab_text   |->
                      <<"#", " ", "O", "r", "c", "h", "e", "s", "t", "r",
                        "a", "t", "e", "d", " ", "s", "o", "u", "l", " ",
                        "b", "a", "s", "s", ":", "\n", "G", "|", "U+2014",
                        "U+2014", "U+2014", "U+2014", "U+2014", "U+2014",
                        "U+2014", "U+2014", "U+2014", "U+2014", "U+2014",
                        "U+2014", "U+2014", "U+2014", "U+2014", "U+2014",
                        "U+2014", "U+2014", "U+2014", "U+2014", "U+2014",
                        "U+2014", "U+2014", "U+2014", "U+2014", "U+2014",
                        "U+2014", "U+2014", "U+2014", "U+2014", "U+2014",
                        "U+2014", "|", "\n", "D", "|", "U+2014", "U+2014",
                        "U+2014", "U+2014", "U+2014", "U+2014", "U+2014",
                        "U+2014", "U+2014", "U+2014", "U+2014", "U+2014",
                        "U+2014", "U+2014", "U+2014", "U+2014", "U+2014",
                        "U+2014", "U+2014", "U+2014", "U+2014", "U+2014",
                        "U+2014", "U+2014", "U+2014", "U+2014", "U+2014",
                        "U+2014", "U+2014", "U+2014", "U+2014", "U+2014",
                        "|", "\n", "A", "|", "U+2014", "U+2014", "U+2014",
                        "U+2014", "U+2014", "U+2014", "U+2014", "U+2014",
                        "U+2014", "U+2014", "U+2014", "U+2014", "U+2014",
                        "U+2014", "U+2014", "U+2014", "U+2014", "U+2014",
                        "U+2014", "3", "U+2014", "2", "U+2014", "0",
                        "U+2014", "U+2014", "U+2014", "U+2014", "U+2014",
                        "U+2014", "U+2014", "|", "\n", "E", "|", "U+2014",
                        "0", "U+2014", "0", "U+2014", "3", "U+2014", "0",
                        "U+2014", "2", "U+2014", "3", "U+2014", "0",
                        "U+2014", "U+2014", "U+2014", "U+2014", "U+2014",
                        "U+2014", "U+2014", "U+2014", "U+2014", "U+2014",
                        "U+2014", "U+2014", "U+2014", "3", "U+2014", "2",
                        "U+2014", "0", "|">>,
                  bars       |-> <<Bar(1, 0), Bar(2, 50)>>]]}

\* known_youtube_ids of search_youtube_id (bass_sample_scraper.py lines 356-377)
known_youtube_ids ==
    {[artist |-> <<"2", "P", "a", "c">>,
      track  |-> <<"C", "a", "l", "i", "f", "o", "r", "n", "i", "a", " ",
                   "L", "o", "v", "e">>,
      value  |-> <<"5", "w", "B", "T", "d", "f", "A", "k", "q", "G", "U">>],
     [artist |-> <<"2", "P", "a", "c">>,
      track  |-> <<"I", " ", "G", "e", "t", " ", "A", "r", "o", "u", "n",
                   "d">>,
      value  |-> <<"Y", "q", "J", "A", "n", "Q", "T", "w", "m", "J", "s">>],
     [artist |-> <<"W", "u", "-", "T", "a", "n", "g", " ", "C", "l", "a",
                   "n">>,
      track  |-> <<"C", ".", "R", ".", "E", ".", "A", ".", "M", ".">>,
      value  |-> <<"P", "B", "w", "A", "x", "m", "r", "E", "1", "9", "4">>],
     [artist |-> <<"W", "u", "-", "T", "a", "n", "g", " ", "C", "l", "a",
                   "n">>,
      track  |-> <<"P", "r", "o", "t", "e", "c", "t", " ", "Y", "a", " ",
                   "N", "e", "c", "k">>,
      value  |-> <<"R", "0", "I", "U", "R", "4", "g", "k", "P", "I", "E">>],
     [artist |-> <<"Z", "a", "p", "p">>,
      track  |-> <<"D", "a", "n", "c", "e", " ", "F", "l", "o", "o", "r">>,
      value  |-> <<"k", "Y", "P", "o", "3", "H", "C", "k", "Y", "d", "8">>],
     [artist |-> <<"T", "h", "e", " ", "C", "h", "a", "r", "m", "e", "l",
                   "s">>,
      track  |-> <<"A", "s", " ", "L", "o", "n", "g", " ", "A", "s", " ",
                   "I", "'", "v", "e", " ", "G", "o", "t", " ", "Y", "o",
                   "u">>,
      value  |-> <<"7", "4", "X", "5", "G", "E", "F", "8", "q", "z", "M">>],
     [artist |-> <<"Z", "a", "p", "p", " ", "&", " ", "R", "o", "g", "e",
                   "r">>,
      track  |-> <<"C", "o", "m", "p", "u", "t", "e", "r", " ", "L", "o",
                   "v", "e">>,
      value  |-> <<"i", "q", "A", "j", "3", "U", "f", "E", "q", "p", "A">>],
     [artist |-> <<"D", "a", "v", "i", "d", " ", "A", "x", "e", "l", "r",
                   "o", "d">>,
      track  |-> <<"H", "o", "l", "y", " ", "T", "h", "u", "r", "s", "d",
                   "a", "y">>,
      value  |-> <<"b", "G", "A", "B", "1", "1", "Z", "i", "P", "e", "w">>],
     [artist |-> <<"N", "e", "l", "l", "y">>,
      track  |-> <<"H", "o", "t", " ", "i", "n", " ", "H", "e", "r", "r",
                   "e">>,
      value  |-> <<"G", "e", "Z", "Z", "r", "_", "p", "6", "v", "B", "8">>],
     [artist |-> <<"C", "h", "u", "c", "k", " ", "B", "r", "o", "w", "n">>,
      track  |-> <<"B", "u", "s", "t", "i", "n", "'", " ", "L", "o", "o",
                   "s", "e">>,
      value  |-> <<"s", "j", "_", "m", "d", "j", "M", "X", "H", "q", "E">>],
     [artist |-> <<"N", "a", "s">>,
      track  |-> <<"N", ".", "Y", ".", " ", "S", "t", "a", "t", "e", " ",
                   "o", "f", " ", "M", "i", "n", "d">>,
      value  |-> <<"U", "K", "j", "j", "4", "h", "k", "0", "p", "V", "4">>],
     [artist |-> <<"J", "o", "e", " ", "C", "h", "a", "m", "b", "e", "r",
                   "s">>,
      track  |-> <<"M", "i", "n", "d", " ", "R", "a", "i", "n">>,
      value  |-> <<"x", "L", "m", "4", "T", "c", "J", "4", "r", "g", "g">>],
     [artist |-> <<"I", "c", "e", " ", "C", "u", "b", "e">>,
      track  |-> <<"I", "t", " ", "W", "a", "s", " ", "a", " ", "G", "o",
                   "o", "d", " ", "D", "a", "y">>,
      value  |-> <<"h", "4", "U", "q", "M", "y", "l", "d", "S", "7", "Q">>],
     [artist |-> <<"T", "h", "e", " ", "I", "s", "l", "e", "y", " ", "B",
                   "r", "o", "t", "h", "e", "r", "s">>,
      track  |-> <<"F", "o", "o", "t", "s", "t", "e", "p", "s", " ", "i",
                   "n", " ", "t", "h", "e", " ", "D", "a", "r", "k">>,
      value  |-> <<"e", "t", "w", "I", "u", "8", "-", "J", "5", "y", "o">>],
     [artist |-> <<"W", "a", "r", "r", "e", "n", " ", "G">>,
      track  |-> <<"R", "e", "g", "u", "l", "a", "t", "e">>,
      value  |-> <<"1", "p", "l", "P", "y", "J", "d", "X", "K", "I", "Y">>],
     [artist |-> <<"M", "i", "c", "h", "a", "e", "l", " ", "M", "c", "D",
                   "o", "n", "a", "l", "d">>,
      track  |-> <<"I", " ", "K", "e", "e", "p", " ", "F", "o", "r", "g",
                   "e", "t", "t", "i", "n", "'">>,
      value  |-> <<"q", "i", "i", "y", "q", "2", "x", "r", "S", "I", "0">>],
     [artist |-> <<"H", "o", "u", "s", "e", " ", "o", "f", " ", "P", "a",
                   "i", "n">>,
      track  |-> <<"J", "u", "m", "p", " ", "A", "r", "o", "u", "n", "d">>,
      value  |-> <<"X", "h", "z", "p", "x", "j", "u", "w", "Z", "y", "0">>],
     [artist |-> <<"B", "o", "b", " ", "&", " ", "E", "a", "r", "l">>,
      track  |-> <<"T", "h", "e", " ", "H", "a", "r", "l", "e", "m", " ",
                   "S", "h", "u", "f", "f", "l", "e">>,
      value  |-> <<"w", "B", "i", "O", "V", "O", "B", "Z", "e", "a", "E">>],
     [artist |-> <<"G", "e", "t", "o", " ", "B", "o", "y", "s">>,
      track  |-> <<"M", "i", "n", "d", " ", "P", "l", "a", "y", "i", "n",
                   "g", " ", "T", "r", "i", "c", "k", "s", " ", "o", "n",
                   " ", "M", "e">>,
      value  |-> <<"K", "u", "t", "X", "y", "P", "E", "E", "b", "Q", "s">>],
     [artist |-> <<"I", "s", "a", "a", "c", " ", "H", "a", "y", "e", "s">>,
      track  |-> <<"H", "u", "n", "g", " ", "U", "p", " ", "o", "n", " ",
                   "M", "y", " ", "B", "a", "b", "y">>,
      value  |-> <<"n", "E", "j", "L", "F", "p", "U", "2", "p", "J", "4">>]}

\* str.replace(old, new) for a one-character old
RECURSIVE Replace(_, _, _)
Replace(s, old, new) ==
    IF s = <<>> THEN <<>>
    ELSE (IF Head(s) = old THEN new ELSE <<Head(s)>>) \o Replace(Tail(s), old, new)

\* dict.get((artist, track), default) on one of the tables
DictGet(table, artist, track, default) ==
    IF \E e \in table : e.artist = artist /\ e.track = track
    THEN (CHOOSE e \in table : e.artist = artist /\ e.track = track).value
    ELSE default

search_whosampled(artist, track) == DictGet(known_samples, artist, track, <<>>)

_search_ultimate_guitar_tabs(artist, track) ==
    DictGet(known_tabs, artist, track, None)

_search_bigbasstabs(artist, track) == None

_generate_basic_tab(artist, track) ==
    [tuning     |-> "EADG",
     difficulty |-> 2,
     tab_text   |->
         <<"#", " ", "B", "a", "s", "i", "c", " ", "p", "a", "t", "t", "e", "r",
        "n", " ", "f", "o", "r", " ">> \o track \o
         <<":", "\n", "G", "|", "U+2014", "U+2014", "U+2014", "U+2014",
        "U+2014", "U+2014", "U+2014", "U+2014", "U+2014", "U+2014", "U+2014",
        "U+2014", "U+2014", "U+2014", "U+2014", "U+2014", "U+2014", "U+2014",
        "U+2014", "U+2014", "U+2014", "U+2014", "U+2014", "U+2014", "U+2014",
        "U+2014", "U+2014", "U+2014", "U+2014", "U+2014", "U+2014", "U+2014",
        "|", "\n", "D", "|", "U+2014", "U+2014", "U+2014", "U+2014",
        "U+2014", "U+2014", "U+2014", "U+2014", "U+2014", "U+2014", "U+2014",
        "U+2014", "U+2014", "U+2014", "U+2014", "U+2014", "U+2014", "U+2014",
        "U+2014", "U+2014", "U+2014", "U+2014", "U+2014", "U+2014", "U+2014",
        "U+2014", "U+2014", "U+2014", "U+2014", "U+2014", "U+2014", "U+2014",
        "|", "\n", "A", "|", "U+2014", "U+2014", "U+2014", "U+2014",
        "U+2014", "U+2014", "U+2014", "U+2014", "U+2014", "U+2014", "U+2014",
        "U+2014", "U+2014", "U+2014", "U+2014", "U+2014", "U+2014", "U+2014",
        "U+2014", "U+2014", "U+2014", "U+2014", "U+2014", "U+2014", "U+2014",
        "U+2014", "U+2014", "U+2014", "U+2014", "U+2014", "U+2014", "U+2014",
        "|", "\n", "E", "|", "U+2014", "0", "U+2014", "U+2014", "U+2014",
        "U+2014", "U+2014", "U+2014", "U+2014", "U+2014", "0", "U+2014",
        "U+2014", "U+2014", "U+2014", "U+2014", "U+2014", "U+2014", "U+2014",
        "0", "U+2014", "U+2014", "U+2014", "U+2014", "U+2014", "U+2014",
        "U+2014", "U+2014", "0", "U+2014", "U+2014", "U+2014", "U+2014", "|">>,
     bars       |-> <<Bar(1, 0)>>]

\* the tab of one search query: Ultimate-Guitar first, then BigBassTabs
SearchQuery(q) ==
    IF _search_ultimate_guitar_tabs(q[1], q[2]) # None
    THEN _search_ultimate_guitar_tabs(q[1], q[2])
    ELSE _search_bigbasstabs(q[1], q[2])

\* the loop of search_bass_tabs over the queries, then the basic pattern
RECURSIVE SearchQueries(_, _, _)
SearchQueries(search_queries, artist, track) ==
    IF search_queries = <<>> THEN _generate_basic_tab(artist, track)
    ELSE IF SearchQuery(Head(search_queries)) # None
    THEN SearchQuery(Head(search_queries))
    ELSE SearchQueries(Tail(search_queries), artist, track)

\* search_bass_tabs: the original song's tab is looked for first; an empty
\* or absent original artist or title leaves that query out
search_bass_tabs(artist, track, original_artist, original_track) ==
    SearchQueries(
        (IF original_artist \notin {NoneStr, <<>>} /\ original_track \notin {NoneStr, <<>>}
         THEN <<<<original_artist, original_track>>>> ELSE <<>>)
        \o <<<<artist, track>>>>,
        artist, track)

search_youtube_id(artist, track) ==
    DictGet(known_youtube_ids, artist, track, NoneStr)

\* search_spotify_id: a mock id made of the lowercased names
search_spotify_id(artist, track) ==
    <<"m", "o", "c", "k", "_", "s", "p", "o", "t", "i", "f", "y", "_", "i",
        "d", "_">>
    \o Replace(ToLower(artist), " ", <<"_">>) \o <<"_">>
    \o Replace(ToLower(track), " ", <<"_">>)

\* a plausible slip: the dots are left in the slug
generate_slug_keepdots(artist, track) ==
    Replace(ToLower(artist), " ", <<"-">>)
    \o <<"-">>
    \o Replace(Replace(ToLower(track), " ", <<"-">>), "'", <<>>)

\* the slug of generate_page_data: lower(), " " to "-", "." removed and, in
\* the track, "'" removed
generate_slug(artist, track) ==
    Replace(Replace(ToLower(artist), " ", <<"-">>), ".", <<>>)
    \o <<"-">>
    \o Replace(Replace(Replace(ToLower(track), " ", <<"-">>), ".", <<>>), "'", <<>>)

\* the page_data built from the first sample and the tab found
page_data(artist, track, year, sample_info, tab_info) ==
    [slug       |-> generate_slug(artist, track),
     track      |-> [title      |-> track,
                     artist     |-> artist,
                     year       |-> year,
                     youtube_id |-> search_youtube_id(artist, track),
                     spotify_id |-> search_spotify_id(artist, track)],
     original   |-> [title      |-> sample_info.original_track.title,
                     artist     |-> sample_info.original_track.artist,
                     year       |-> sample_info.original_track.year,
                     youtube_id |-> sample_info.original_track.youtube_id,
                     spotify_id |-> search_spotify_id(sample_info.original_track.artist,
                                                      sample_info.original_track.title)],
     sample_map |-> [is_bass_sample     |-> sample_info.is_bass_sample,
                     sample_type        |-> sample_info.sample_type,
                     track_start_sec    |-> sample_info.track_start_sec,
                     original_start_sec |-> sample_info.original_start_sec,
                     notes              |-> sample_info.notes],
     tab        |-> [tuning     |-> tab_info.tuning,
                     difficulty |-> tab_info.difficulty,
                     tab_text   |-> tab_info.tab_text,
                     bars       |-> [i \in 1..Len(tab_info.bars) |->
                                        Bar(tab_info.bars[i].bar,
                                            sample_info.original_start_sec
                                            + tab_info.bars[i].start_sec)]]]

\* generate_page_data from its first sample on
generate_from_sample(artist, track, year, sample_info) ==
    page_data(artist, track, year, sample_info,
              search_bass_tabs(artist, track, sample_info.original_track.artist,
                               sample_info.original_track.title))

\* generate_page_data: None when no sample is known
generate_page_data(artist, track, year) ==
    IF search_whosampled(artist, track) = <<>> THEN None
    ELSE generate_from_sample(artist, track, year, search_whosampled(artist, track)[1])

\* the arguments of generate_page_data: the derivative artists and titles of
\* the table, an artist and a title that are originals only, the years of
\* the demo tracks
ScraperArtists == {e.artist : e \in known_samples} \cup {<<"Z", "a", "p", "p">>}
ScraperTracks == {e.track : e \in known_samples} \cup {<<"D", "a", "n", "c", "e", " ", "F", "l", "o", "o", "r">>}
ScraperYears == {1992, 1993, 1995}
ScraperInputs == [artist : ScraperArtists, track : ScraperTracks, year : ScraperYears]

InitScr ==
    /\ data = SeedData
    /\ inserted = <<>>
    /\ last = [op |-> "init"]
    /\ debug \in BOOLEAN
    /\ pc = Idle
    /\ call = NoCall
    /\ ret = NoCall
    /\ heap = <<>>
    /\ vin \in ScraperInputs
    /\ vout = [op |-> "init"]

GeneratePageData ==
    /\ vout' = [op |-> "generate_page_data",
                ret |-> generate_page_data(vin.artist, vin.track, vin.year)]
    /\ UNCHANGED <<data, inserted, last, debug, pc, call, ret, heap, vin>>

\* the record generate_page_data returned is handed to PagePayload
ValidateGenerated ==
    /\ vout.op = "generate_page_data"
    /\ vout.ret # None
    /\ vout' = [op |-> "PagePayload", page_data |-> vout.ret,
                result |-> PagePayload(vout.ret)]
    /\ UNCHANGED <<data, inserted, last, debug, pc, call, ret, heap, vin>>

NextScr ==
    \/ GeneratePageData
    \/ ValidateGenerated

SpecScr == InitScr /\ [][NextScr]_vars

\* C22: every record generate_page_data returns is accepted by the record
\* model: its track, original, sample_map and tab as produced, and the
\* whole as a PagePayload
C22_ScrapedRecordAccepted ==
    vout.op = "PagePayload" =>
        /\ Track(vout.page_data.track).ok
        /\ Original(vout.page_data.original).ok
        /\ SampleMap(vout.page_data.sample_map).ok
        /\ Tab(vout.page_data.tab).ok
        /\ vout.result.ok

\* the slug the description gives: both names in lower case, spaces turned
\* into hyphens, every other character that is no letter, digit or hyphen
\* dropped
SlugPart(name) ==
    SelectSeq(Replace(ToLower(name), " ", <<"-">>), LAMBDA c : c \in SlugClass)

\* C23: the slug of every record generate_page_data returns is the artist
\* and the title joined by a hyphen, lowercased, spaces turned into hyphens
\* and punctuation stripped; it consists of lowercase letters, digits and
\* hyphens only and sanitize_slug returns it unchanged
C23_GeneratedSlugIsSafe ==
    (vout.op = "generate_page_data" /\ vout.ret # None) =>
        /\ vout.ret.slug = SlugPart(vin.artist) \o <<"-">> \o SlugPart(vin.track)
        /\ AllInClass(vout.ret.slug, SlugClass)
        /\ sanitize_slug(vout.ret.slug) = Return(vout.ret.slug)

\* a record was returned for a title with punctuation: "C.R.E.A.M." of
\* "Wu-Tang Clan" gives wu-tang-clan-cream
C23_Witness ==
    /\ vout.op = "generate_page_data"
    /\ vout.ret # None
    /\ vin.track = <<"C", ".", "R", ".", "E", ".", "A", ".", "M", ".">>
    /\ vout.ret.slug = <<"w", "u", "-", "t", "a", "n", "g", "-", "c", "l", "a", "n", "-", "c",
        "r", "e", "a", "m">>
    /\ sanitize_slug(vout.ret.slug).ok

-----------------------------------------------------------------------------
(* Properties of the timing-alignment check *)

\* validate_tab_sync found no sample_map in info.data and made no check
SyncCheckSkipped(raw) ==
    "sample_map" \notin
        DOMAIN InfoData(Track(raw.track), Original(raw.original),
                        SampleMap(raw.sample_map))

\* C24: no PagePayload is accepted without the timing-alignment check: where
\* validate_tab_sync skips the check because sample_map did not validate
\* before tab, the payload is rejected, and an accepted payload has its
\* first bar within the tolerance of sample_map.original_start_sec
C24_NoAcceptWithoutSyncCheck ==
    vout.op = "PagePayload" =>
        /\ SyncCheckSkipped(vin) => ~vout.result.ok
        /\ vout.result.ok =>
              /\ ~SyncCheckSkipped(vin)
              /\ Abs(vout.result.value.tab.bars[1].start_sec
                     - vout.result.value.sample_map.original_start_sec) <= SyncTolerance

\* the check was skipped on a valid tab whose first bar is off the sample
\* start, and the payload was rejected
C24_Witness ==
    /\ vout.op = "PagePayload"
    /\ SyncCheckSkipped(vin)
    /\ Tab(vin.tab).ok
    /\ Abs(Tab(vin.tab).value.bars[1].start_sec
           - vin.sample_map.original_start_sec) > SyncTolerance
    /\ validate_tab_sync(Tab(vin.tab).value, <<>>).ok
    /\ ~vout.result.ok

-----------------------------------------------------------------------------
(* The keys of the store: add_pair called with any string, get_pair asked  *)
(* for the keys                                                            *)

\* slugs handed to add_pair: a URL-safe one, one in capitals and a
\* path-traversal sequence
KeySlugs == {<<"a">>, <<"A">>, <<".", ".", "/", "a">>}

NextKeys ==
    \/ \E slug \in KeySlugs : AddPair(slug, Ref("new_pair_1"))
    \/ \E slug \in KeySlugs \cup {SlugJuicy} : GetPair(slug)

SpecKeys == Init /\ [][NextKeys]_vars

\* a URL-safe slug: non-empty, lowercase letters, digits and hyphens only,
\* at most 100 characters, no path-traversal sequence
UrlSafe(s) ==
    /\ s # <<>>
    /\ AllInClass(s, SlugClass)
    /\ Len(s) <= SlugMaxLength
    /\ ~Contains(s, <<".", ".">>)
    /\ ~Contains(s, <<"/">>)
    /\ ~Contains(s, <<"\\">>)

-----------------------------------------------------------------------------
(* SecurityUtils.sanitize_tab_text *)

\* re.sub(r'<[^>]*>', '', s): from the left, a "<" with a ">" somewhere after
\* it is removed together with everything up to the first such ">"
RECURSIVE ReSubTags(_)
ReSubTags(s) ==
    IF s = <<>> THEN <<>>
    ELSE IF Head(s) = "<" /\ \E j \in 2..Len(s) : s[j] = ">"
    THEN ReSubTags(SubSeq(s, 1 + (CHOOSE j \in 2..Len(s) :
                                     s[j] = ">" /\ \A k \in 2..(j - 1) : s[k] # ">"),
                          Len(s)))
    ELSE <<Head(s)>> \o ReSubTags(Tail(s))

\* a character as re.IGNORECASE compares it
CaseFold(c) ==
    IF c \in UpperChars THEN LowerSeq[CHOOSE k \in 1..26 : UpperSeq[k] = c] ELSE c

\* re.search(word, s, re.IGNORECASE) for a literal word in lower case
ReSearchIgnoreCase(word, s) ==
    \E i \in 1..(Len(s) - Len(word) + 1) :
        \A k \in 1..Len(word) : CaseFold(s[i + k - 1]) = word[k]

\* the alternatives of r'(javascript:|data:|vbscript:)'
script_schemes ==
    {<<"j", "a", "v", "a", "s", "c", "r", "i", "p", "t", ":">>,
     <<"d", "a", "t", "a", ":">>,
     <<"v", "b", "s", "c", "r", "i", "p", "t", ":">>}

\* the class of valid_chars, [A-Za-z0-9|\-hps~\s\n\/\\x]
valid_chars ==
    UpperChars \cup LowerChars \cup DigitChars \cup WhitespaceChars
    \cup {"|", "-", "h", "p", "s", "~", "/", "\\", "x"}

\* a plausible slip: the check of the characters is left out
sanitize_tab_text_nocharcheck(tab_text) ==
    IF tab_text = <<>> THEN Raise("ValueError", "Tab text cannot be empty")
    ELSE IF \E w \in script_schemes : ReSearchIgnoreCase(w, ReSubTags(tab_text))
    THEN Raise("ValueError", "Tab text contains potentially dangerous content")
    ELSE Return(Strip(ReSubTags(tab_text)))

\* SecurityUtils.sanitize_tab_text: the empty text is refused, the tags are
\* removed, then the schemes are searched and the characters matched
\* against ^[...]+$ in what is left, and the text is returned stripped
sanitize_tab_text(tab_text) ==
    IF tab_text = <<>> THEN Raise("ValueError", "Tab text cannot be empty")
    ELSE IF \E w \in script_schemes : ReSearchIgnoreCase(w, ReSubTags(tab_text))
    THEN Raise("ValueError", "Tab text contains potentially dangerous content")
    ELSE IF ~(ReSubTags(tab_text) # <<>> /\ AllInClass(ReSubTags(tab_text), valid_chars))
    THEN Raise("ValueError", "Tab text contains invalid characters")
    ELSE Return(Strip(ReSubTags(tab_text)))

\* characters of the tab texts enumerated exhaustively
TabInputChars == {"<", ">", "a", " ", ":"}

MaxTabLen == 3

\* a scheme split by a tag, in three spellings
SplitSchemeInputs ==
    {<<"j", "a", "v", "a", "<", "b", ">", "s", "c", "r", "i", "p", "t", ":">>,
     <<"D", "a", "<", "i", ">", "t", "a", ":">>,
     <<"G", "|", "-", "<", "a", " ", "h", "r", "e", "f", "=", "x", ">", "V",
        "B", "<", "/", "a", ">", "S", "c", "r", "i", "p", "t", ":", "-", "|">>}

\* tab texts handed to sanitize_tab_text: every string over TabInputChars up
\* to MaxTabLen, a tab, tabs with tags, schemes in several cases, a scheme
\* split by a tag, tabs with padding
SanitizeInputs ==
    SeqsUpTo(TabInputChars, MaxTabLen) \cup SplitSchemeInputs \cup
    {TestTabText,
     <<"G", "|", "-", "-", "<", "b", ">", "3", "<", "/", "b", ">", "-", "-",
        "|">>,
     <<"<", "s", "c", "r", "i", "p", "t", ">", "a", "l", "e", "r", "t", "(",
        "1", ")", "<", "/", "s", "c", "r", "i", "p", "t", ">", "G", "|", "-",
        "-", "3", "-", "-", "|">>,
     <<"j", "a", "v", "a", "s", "c", "r", "i", "p", "t", ":">>,
     <<"G", "|", "-", "J", "a", "v", "a", "S", "c", "r", "i", "p", "t", ":",
        "-", "|">>,
     <<"D", "A", "T", "A", ":", "x">>,
     <<"v", "b", "s", "c", "r", "i", "p", "t", ":">>,
     <<" ", " ", "G", "|", "-", "-", "3", "-", "-", "|", "\n">>,
     <<" ", "\t", "\n">>,
     <<"<", "b", ">", "<", "/", "b", ">">>,
     <<"<", "b", ">", " ", "<", "/", "b", ">", "\n">>,
     <<"G", "|", "-", "-", "3", "-", "-", "|", "<">>,
     <<"G", "|", "-", "3", "-", ">", "-", "|">>,
     <<"#", " ", "I", "n", "t", "r", "o", ":", "\n", "E", "|", "-", "-",
        "3", "-", "5", "-", "-", "|">>}

InitSan ==
    /\ data = SeedData
    /\ inserted = <<>>
    /\ last = [op |-> "init"]
    /\ debug = FALSE
    /\ pc = Idle
    /\ call = NoCall
    /\ ret = NoCall
    /\ heap = <<>>
    /\ vin \in SanitizeInputs
    /\ vout = [op |-> "init"]

SanitizeTabText ==
    /\ vout' = [op |-> "sanitize_tab_text", result |-> sanitize_tab_text(vin)]
    /\ UNCHANGED <<data, inserted, last, debug, pc, call, ret, heap, vin>>

\* the text sanitize_tab_text returned is handed to it again
SanitizeAgain ==
    /\ vout.op = "sanitize_tab_text"
    /\ vout.result.ok
    /\ vout' = [op |-> "sanitize_tab_text again", first |-> vout.result,
                result |-> sanitize_tab_text(vout.result.value)]
    /\ UNCHANGED <<data, inserted, last, debug, pc, call, ret, heap, vin>>

NextSan ==
    \/ SanitizeTabText
    \/ SanitizeAgain

SpecSan == InitSan /\ [][NextSan]_vars

\* C27: a text sanitize_tab_text returns holds no "<" and no ">" and no
\* javascript:, data: or vbscript: in any case; a scheme that a tag splits
\* is found after the tag is removed and the text is refused as dangerous
C27_SanitizedTextSafe ==
    vout.op = "sanitize_tab_text" =>
        /\ vout.result.ok =>
              /\ ~Contains(vout.result.value, <<"<">>)
              /\ ~Contains(vout.result.value, <<">">>)
              /\ ~HasScriptScheme(vout.result.value)
        /\ vin \in SplitSchemeInputs =>
              /\ ~vout.result.ok
              /\ vout.result.type = "ValueError"
              /\ vout.result.msg = "Tab text contains potentially dangerous content"

\* a text was returned with its tags removed
C27_Witness ==
    /\ vout.op = "sanitize_tab_text"
    /\ Contains(vin, <<"<", "b", ">">>)
    /\ vout.result.ok
    /\ vout.result.value = <<"G", "|", "-", "-", "3", "-", "-", "|">>

\* C29: sanitize_tab_text never returns an empty string: an input that is
\* empty, holds only whitespace, or is empty once its tags are removed is
\* refused with a ValueError
C29_NeverReturnsEmpty ==
    vout.op = "sanitize_tab_text" =>
        /\ vout.result.ok => vout.result.value # <<>>
        /\ (vin = <<>> \/ BlankStr(vin) \/ ReSubTags(vin) = <<>>) =>
              (~vout.result.ok /\ vout.result.type = "ValueError")

-----------------------------------------------------------------------------
(* Assignments to the fields of an accepted PagePayload.  Every model sets *)
(* validate_assignment: the value assigned goes through the validators of  *)
(* the field assigned, with the other fields of the object as info.data;   *)
(* the validators of the other fields do not run.                          *)

\* the payloads the object is constructed from
AssignedPayloads ==
    {p \in {Pair(<<"T">>, <<"O">>, 0, os, bs) :
                os \in {0, 10}, bs \in {<<Bar(1, 0)>>, <<Bar(1, 10), Bar(2, 40)>>}} :
        PagePayload(p).ok}

\* values assigned to the fields
AssignedTracks ==
    {[title |-> t, artist |-> StrTest, year |-> 2020, youtube_id |-> TestYoutubeId] :
        t \in {<<"T">>, <<"N", "e", "w">>, <<>>}}
AssignedSampleMaps ==
    [track_start_sec : {0}, original_start_sec : {-5, 0, 10, 50}]
AssignedBars ==
    {<<>>, <<Bar(1, 0)>>, <<Bar(1, 50)>>, <<Bar(2, 40), Bar(1, 10)>>,
     <<Bar(1, 40), Bar(2, 10)>>}
AssignedTabs ==
    [difficulty : {2}, tab_text : {TestTabText}, bars : AssignedBars]

InitAsg ==
    /\ data = SeedData
    /\ inserted = <<>>
    /\ last = [op |-> "init"]
    /\ debug = FALSE
    /\ pc = Idle
    /\ call = NoCall
    /\ ret = NoCall
    /\ heap = <<>>
    /\ vin \in AssignedPayloads
    /\ vout = [op |-> "PagePayload", obj |-> PagePayload(vin).value, raised |-> FALSE]

\* obj.<field> = value, r being what the validators of the field made of the
\* value: assigned, or ValidationError and the object as it was
Assign(op, obj, field, r) ==
    [op     |-> op,
     obj    |-> IF r.ok THEN [obj EXCEPT ![field] = r.value] ELSE obj,
     raised |-> ~r.ok]

\* obj.tab.bars = value, on the Tab of the object
AssignTabBars(op, obj, r) ==
    [op     |-> op,
     obj    |-> IF r.ok THEN [obj EXCEPT !.tab.bars = r.value] ELSE obj,
     raised |-> ~r.ok]

\* info.data of an assignment to tab: the other fields of the object
OtherFields(obj) ==
    [track |-> obj.track, original |-> obj.original, sample_map |-> obj.sample_map]

\* payload.track = Track(**fields)
AssignTrack(fields) ==
    /\ vout' = Assign("track =", vout.obj, "track", Track(fields))
    /\ UNCHANGED <<data, inserted, last, debug, pc, call, ret, heap, vin>>

\* payload.original = Original(**fields)
AssignOriginal(fields) ==
    /\ vout' = Assign("original =", vout.obj, "original", Original(fields))
    /\ UNCHANGED <<data, inserted, last, debug, pc, call, ret, heap, vin>>

\* payload.sample_map = SampleMap(**fields): PagePayload has no validator
\* on sample_map
AssignSampleMap(fields) ==
    /\ vout' = Assign("sample_map =", vout.obj, "sample_map", SampleMap(fields))
    /\ UNCHANGED <<data, inserted, last, debug, pc, call, ret, heap, vin>>

\* payload.tab = Tab(**fields): validate_tab_sync runs on the new tab
AssignTab(fields) ==
    /\ vout' = Assign("tab =", vout.obj, "tab",
                      TabField(Tab(fields), OtherFields(vout.obj)))
    /\ UNCHANGED <<data, inserted, last, debug, pc, call, ret, heap, vin>>

\* payload.tab.bars = bars: the validators of Tab.bars run,
\* PagePayload.validate_tab_sync does not
AssignBars(bars) ==
    /\ vout' = AssignTabBars("tab.bars =", vout.obj, BarsField(bars))
    /\ UNCHANGED <<data, inserted, last, debug, pc, call, ret, heap, vin>>

NextAsg ==
    \/ \E fields \in AssignedTracks : AssignTrack(fields)
    \/ \E fields \in AssignedTracks : AssignOriginal(fields)
    \/ \E fields \in AssignedSampleMaps : AssignSampleMap(fields)
    \/ \E fields \in AssignedTabs : AssignTab(fields)
    \/ \E bars \in AssignedBars : AssignBars(bars)

SpecAsg == InitAsg /\ [][NextAsg]_vars

\* C28: after any sequence of successful field assignments on an accepted
\* PagePayload its first bar starts within 1.0 s of
\* sample_map.original_start_sec
C28_AlignedAfterAssignment ==
    "obj" \in DOMAIN vout =>
        Abs(vout.obj.tab.bars[1].start_sec
            - vout.obj.sample_map.original_start_sec) <= 10

-----------------------------------------------------------------------------
(* The reading calls of the store and the list list_all_pairs returns, in  *)
(* the hands of its caller                                                 *)

\* what the caller does to the list: lst.clear(), lst.pop(0), lst.append("x")
ListAlterations == {"clear", "pop", "append"}

Altered(lst, how) ==
    CASE how = "clear"  -> <<>>
      [] how = "pop"    -> Tail(lst)
      [] how = "append" -> Append(lst, <<"x">>)

\* a plausible slip: the list returned is the key list the store itself
\* works on, so that a key taken out of it is gone from the store
store_after_alter_shared(d, altered) ==
    SelectSeq(d, LAMBDA e : \E i \in 1..Len(altered) : altered[i] = e.slug)

\* the store once the caller has altered the list: list(self._data.keys())
\* built a new list that shares nothing with the dict
store_after_alter(d, altered) == d

\* the caller alters the list the last list_all_pairs call returned
AlterList(how) ==
    /\ last.op = "list_all_pairs"
    /\ data' = store_after_alter(data, Altered(last.ret, how))
    /\ last' = [op |-> "alter list", ret |-> Altered(last.ret, how)]
    /\ vout' = [op |-> "alter list", list |-> Altered(last.ret, how)]
    /\ UNCHANGED <<inserted, debug, pc, call, ret, heap, vin>>

NextFrame ==
    \/ \E slug \in {<<"a">>, <<"a", "a">>} : AddPair(slug, Ref("new_pair_1"))
    \/ \E slug \in StoreSlugs : GetPairBySlug(slug)
    \/ ListAllPairs
    \/ \E how \in ListAlterations : AlterList(how)

SpecFrame == Init /\ [][NextFrame]_vars

\* C30: a step of get_pair_by_slug or list_all_pairs, or of the caller
\* altering the list list_all_pairs returned, leaves the store with the same
\* keys in the same order and the same records; whatever was done to earlier
\* lists, list_all_pairs returns the keys stored and get_pair_by_slug the
\* record stored
C30_Step ==
    /\ last'.op \in {"get_pair_by_slug", "list_all_pairs", "alter list"} =>
          /\ data' = data
          /\ Resolved(data', heap') = Resolved(data, heap)
    /\ last'.op = "list_all_pairs" =>
          last'.ret = Keys(SeedData) \o Keys(inserted')
    /\ last'.op = "get_pair_by_slug" =>
          \A e \in {SeedData[i] : i \in 1..Len(SeedData)}
                   \cup {inserted'[i] : i \in 1..Len(inserted')} :
              e.slug = last'.slug => last'.ret = e.rec

C30_ReadsLeaveStoreUnchanged == [][C30_Step]_vars

\* list_all_pairs was called again after the caller had cleared the list of
\* an earlier call, and returned every key stored
C30_Witness ==
    /\ last.op = "list_all_pairs"
    /\ vout.op = "alter list"
    /\ vout.list = <<>>
    /\ Len(inserted) = 1
    /\ last.ret = Keys(SeedData) \o Keys(inserted)
    /\ last.ret = Keys(data)

====
